---- MODULE Spec2Model ----
(***************************************************************************)
(* Model of the chat server of Friends-Messenger: src/server.py (registry, *)
(* per-connection handler, broadcast, presence) on top of the Store of     *)
(* src/db.py (users, messages).                                            *)
(*                                                                         *)
(* Scheduling: the server is one asyncio event loop.  Code between two     *)
(* awaits runs without interruption; every `await ws.send(...)` and the    *)
(* `async for raw in ws` are the points where another task may run.  The   *)
(* variable `running` holds the connection whose task is in the middle of  *)
(* synchronous code (0 when every task is parked at an await).             *)
(*                                                                         *)
(* Strings on which the code works character by character (strip, lower,   *)
(* len, isspace, int) are sequences of character codes; messages that are  *)
(* only passed on are TLA+ strings.  JSON / Python values are tagged       *)
(* records [t |-> "none" | "str" | "int" | "bool", v |-> ...]; an integer  *)
(* too wide for "int" has the tag "int64" or "bigint".                     *)
(* Left out: created_at timestamps, the room column (always "general").    *)
(***************************************************************************)
EXTENDS Integers, Sequences, FiniteSets, TLC

(***************************************************************************)
(* Bounds of the exploration.  An event is something the environment does: *)
(* a client connects, a client's frame is handed to its handler, a         *)
(* connection is closed.                                                   *)
(***************************************************************************)
\* events of a run of Spec
MaxEvents == 5
\* events of a run of SpecV
MaxEventsV == 4
\* events of a run of SpecF
MaxEventsF == 4
\* events of a run of SpecH
MaxEventsH == 3
\* messages in the Store at the start of a run of SpecH, at most
MaxStored == 82

\* events of a run of SpecS
MaxEventsS == 6

\* frames of a run of SpecC
MaxEventsC == 3

\* connections that are open at the start of SpecB, and how many of them close
MaxConnsB == 3
MaxClosesB == 2

\* commands submitted to and frames pushed to the worker in a run of SpecW
MaxEventsW == 3

(***************************************************************************)
(* Character strings.                                                      *)
(***************************************************************************)
s_empty == <<>>
\* "alice"
s_alice == <<97, 108, 105, 99, 101>>
\* " alice " (surrounding blanks, removed by strip)
s_alice_sp == <<32, 97, 108, 105, 99, 101, 32>>
\* "Bob"
s_Bob == <<66, 111, 98>>
\* "bob"
s_bob == <<98, 111, 98>>
\* "admin"
s_admin == <<97, 100, 109, 105, 110>>
\* "eve"
s_eve == <<101, 118, 101>>
\* "zed"
s_zed == <<122, 101, 100>>
\* "a b" (blank inside)
s_a_b == <<97, 32, 98>>
\* "pw1234"
s_pw == <<112, 119, 49, 50, 51, 52>>
\* "nope"
s_nope == <<110, 111, 112, 101>>
\* "abc"
s_abc == <<97, 98, 99>>
\* "hi"
s_hi == <<104, 105>>
\* " hi "
s_hi_sp == <<32, 104, 105, 32>>
\* "  "
s_blank == <<32, 32>>
\* "text"
s_text == <<116, 101, 120, 116>>
\* "sticker"
s_sticker == <<115, 116, 105, 99, 107, 101, 114>>
\* " Sticker "
s_Sticker_sp == <<32, 83, 116, 105, 99, 107, 101, 114, 32>>
\* "image"
s_image == <<105, 109, 97, 103, 101>>
\* ":)"
s_smile == <<58, 41>>
\* "7"
s_7 == <<55>>
\* "-7"
s_neg7 == <<45, 55>>

\* str.isspace for one character (ASCII range)
IsSpace(ch) == ch \in ((9..13) \cup (28..32))

\* str.lower for one character (ASCII range)
LowerCh(ch) == IF ch \in 65..90 THEN ch + 32 ELSE ch

\* str.lower
StrLower(s) == [i \in 1..Len(s) |-> LowerCh(s[i])]

RECURSIVE LStrip(_)
LStrip(s) == IF s # <<>> /\ IsSpace(Head(s)) THEN LStrip(Tail(s)) ELSE s

RECURSIVE RStrip(_)
RStrip(s) ==
    IF s # <<>> /\ IsSpace(s[Len(s)]) THEN RStrip(SubSeq(s, 1, Len(s) - 1)) ELSE s

\* str.strip
Strip(s) == RStrip(LStrip(s))

\* Python's s < t on strings: lexicographic on the character codes
RECURSIVE StrLess(_, _)
StrLess(s, t) ==
    IF t = <<>> THEN FALSE
    ELSE IF s = <<>> THEN TRUE
    ELSE IF Head(s) # Head(t) THEN Head(s) < Head(t)
    ELSE StrLess(Tail(s), Tail(t))

Range(q) == {q[i] : i \in 1..Len(q)}

(***************************************************************************)
(* Python / JSON values.                                                   *)
(***************************************************************************)
PyNone == [t |-> "none"]
PyStr(s) == [t |-> "str", v |-> s]
PyInt(n) == [t |-> "int", v |-> n]
PyBool(b) == [t |-> "bool", v |-> b]
\* an integer of magnitude above 2**31 - 1 inside the range of a signed
\* 64-bit integer, kept as its decimal text str(n)
PyInt64(s) == [t |-> "int64", v |-> s]
\* an integer outside the range of a signed 64-bit integer
PyBigInt == [t |-> "bigint"]

\* truth value of a Python value, as `x or y` and `bool(x)` test it
Truthy(x) ==
    CASE x.t = "none" -> FALSE
      [] x.t = "str" -> x.v # <<>>
      [] x.t = "int" -> x.v # 0
      [] x.t = "bool" -> x.v
      [] x.t \in {"int64", "bigint"} -> TRUE

\* x or d
PyOr(x, d) == IF Truthy(x) THEN x ELSE d

\* results of calls that may raise
Ok(v) == [ok |-> TRUE, v |-> v]
\* str(e) of the exception is kept as the pieces of text that make it up
Raise(exc, msg) == [ok |-> FALSE, exc |-> exc, msg |-> <<msg>>]
RaiseText(exc, pieces) == [ok |-> FALSE, exc |-> exc, msg |-> pieces]

\* str(e) of the AttributeError x.strip() raises for x that is not a str
NoStrip(x) ==
    CASE x.t \in {"int", "int64", "bigint"} -> "'int' object has no attribute 'strip'"
      [] x.t = "bool" -> "'bool' object has no attribute 'strip'"
      [] x.t = "none" -> "'NoneType' object has no attribute 'strip'"

\* str(e) of the TypeError len(x) raises for x that is not a str
NoLen(x) ==
    CASE x.t \in {"int", "int64", "bigint"} -> "object of type 'int' has no len()"
      [] x.t = "bool" -> "object of type 'bool' has no len()"
      [] x.t = "none" -> "object of type 'NoneType' has no len()"

\* the characters int() skips around a literal (ASCII range): unlike
\* str.strip it does not skip the separators 28..31
IntSpace(ch) == ch \in ((9..13) \cup {32})

RECURSIVE IntLStrip(_)
IntLStrip(s) == IF s # <<>> /\ IntSpace(Head(s)) THEN IntLStrip(Tail(s)) ELSE s

RECURSIVE IntRStrip(_)
IntRStrip(s) ==
    IF s # <<>> /\ IntSpace(s[Len(s)]) THEN IntRStrip(SubSeq(s, 1, Len(s) - 1)) ELSE s

\* the literal without its sign
Unsigned(s) == IF s # <<>> /\ Head(s) \in {43, 45} THEN Tail(s) ELSE s

\* digits, with single underscores between digits
IsDigits(s) ==
    /\ s # <<>>
    /\ \A i \in 1..Len(s) : s[i] \in (48..57) \cup {95}
    /\ s[1] # 95 /\ s[Len(s)] # 95
    /\ \A i \in 1..(Len(s) - 1) : ~(s[i] = 95 /\ s[i + 1] = 95)

RECURSIVE DigitsValue(_)
DigitsValue(s) ==
    IF s = <<>> THEN 0
    ELSE 10 * DigitsValue(SubSeq(s, 1, Len(s) - 1)) + (s[Len(s)] - 48)

\* a <= b for two runs of digits without leading zeros
DecLeq(a, b) == Len(a) < Len(b) \/ (Len(a) = Len(b) /\ ~StrLess(b, a))

\* 2**31 - 1, 2**63 - 1 and 2**63 in decimal
s_int32_max == <<50, 49, 52, 55, 52, 56, 51, 54, 52, 55>>
s_int64_max == <<57, 50, 50, 51, 51, 55, 50, 48, 51, 54, 56, 53, 52, 55, 55, 53, 56, 48, 55>>
s_int64_min == <<57, 50, 50, 51, 51, 55, 50, 48, 51, 54, 56, 53, 52, 55, 55, 53, 56, 48, 56>>

\* the Python int with the sign and the digits of a literal; sig is the
\* digits without their leading zeros
IntOfDigits(neg, d) ==
    LET k == CHOOSE k \in 1..Len(d) : /\ \A i \in 1..(k - 1) : d[i] = 48
                                      /\ k = Len(d) \/ d[k] # 48
        sig == SubSeq(d, k, Len(d))
    IN
    IF DecLeq(sig, s_int32_max)
    THEN PyInt(IF neg THEN 0 - DigitsValue(sig) ELSE DigitsValue(sig))
    ELSE IF DecLeq(sig, s_int64_max) \/ (neg /\ sig = s_int64_min)
    THEN PyInt64(IF neg THEN <<45>> \o sig ELSE sig)
    ELSE PyBigInt

\* str(n) for an integer n
RECURSIVE IntToStr(_)
IntToStr(n) ==
    IF n < 0 THEN <<45>> \o IntToStr(0 - n)
    ELSE IF n < 10 THEN <<48 + n>>
    ELSE IntToStr(n \div 10) \o <<48 + (n % 10)>>

HexDigit(n) == IF n < 10 THEN 48 + n ELSE 87 + n

\* repr of one character inside the quotes q (ASCII range)
ReprCh(ch, q) ==
    CASE ch = 92 -> <<92, 92>>
      [] ch = q -> <<92, q>>
      [] ch = 9 -> <<92, 116>>
      [] ch = 10 -> <<92, 110>>
      [] ch = 13 -> <<92, 114>>
      [] ch < 32 \/ ch = 127 -> <<92, 120, HexDigit(ch \div 16), HexDigit(ch % 16)>>
      [] OTHER -> <<ch>>

RECURSIVE ReprBody(_, _)
ReprBody(s, q) ==
    IF s = <<>> THEN <<>>
    ELSE IF Len(s) = 1 THEN ReprCh(s[1], q)
    ELSE ReprBody(SubSeq(s, 1, Len(s) \div 2), q)
         \o ReprBody(SubSeq(s, Len(s) \div 2 + 1, Len(s)), q)

\* repr(s) of a str: in double quotes when s has a ' and no "
Repr(s) ==
    LET q == IF 39 \in Range(s) /\ 34 \notin Range(s) THEN 34 ELSE 39
    IN <<q>> \o ReprBody(s, q) \o <<q>>

\* sys.get_int_max_str_digits(): the most digits int() converts
MaxStrDigits == 4300
\* the ValueError of int() holds at most this much of repr(x) (%.200R)
ReprWidth == 200

\* int(x): the Python integer, or the exception raised.  For a str: the
\* leading whitespace and a sign are skipped, the digits and underscores are
\* scanned (run) and counted, and only whitespace may follow them.  The
\* ValueError for a str that is no literal holds at most ReprWidth
\* characters of its repr
PyIntOf(x) ==
    CASE x.t \in {"int", "int64", "bigint"} -> Ok(x)
      [] x.t = "bool" -> Ok(PyInt(IF x.v THEN 1 ELSE 0))
      [] x.t = "str" ->
            LET lit == IntLStrip(x.v)
                body == Unsigned(lit)
                n == CHOOSE n \in 0..Len(body) :
                        /\ \A i \in 1..n : body[i] \in (48..57) \cup {95}
                        /\ n < Len(body) => body[n + 1] \notin (48..57) \cup {95}
                run == SubSeq(body, 1, n)
                rest == SubSeq(body, n + 1, Len(body))
                digits == SelectSeq(run, LAMBDA ch : ch # 95)
                r == Repr(x.v)
                invalid == RaiseText("ValueError",
                                     <<"invalid literal for int() with base 10: ",
                                       SubSeq(r, 1, IF Len(r) < ReprWidth THEN Len(r)
                                                    ELSE ReprWidth)>>)
            IN IF ~IsDigits(run) THEN invalid
               ELSE IF Len(digits) > MaxStrDigits
               THEN RaiseText("ValueError",
                              <<"Exceeds the limit (", IntToStr(MaxStrDigits),
                                " digits) for integer string conversion: value has ",
                                IntToStr(Len(digits)),
                                " digits; use sys.set_int_max_str_digits() to increase the limit">>)
               ELSE IF IntRStrip(rest) # <<>> THEN invalid
               ELSE Ok(IntOfDigits(Head(lit) = 45, digits))
      [] x.t = "none" ->
            Raise("TypeError",
                  "int() argument must be a string, a bytes-like object or a real number, not 'NoneType'")

(***************************************************************************)
(* The Store (src/db.py).  users and messages are the two tables, kept as  *)
(* sequences of rows in insertion order; the autoincrement primary key of  *)
(* a row is its position, since no row is ever deleted.                    *)
(***************************************************************************)
PBKDF2_ITERS_DEFAULT == 200000
\* upper bound on len(content) in insert_message
MaxContentLen == 2000
\* bounds on len(username) in create_user
MinUsernameLen == 3
MaxUsernameLen == 32
\* lower bound on len(password) in create_user
MinPasswordLen == 4
\* limit passed to fetch_history by the login branch of handler
HistoryLimit == 80
\* clamp of limit inside fetch_history
HistoryLimitMax == 200

\* values secrets.token_bytes may return
Salts == {"salt1", "salt2"}

\* hashlib.pbkdf2_hmac: an ideal hash, different inputs give different digests
Pbkdf2(password, salt, iters) == <<"dk", password, salt, iters>>

\* hash_password for a chosen salt; password is a Python value
hash_password(password, salt) ==
    IF password.t # "str" \/ password.v = <<>>
    THEN Raise("ValueError", "Password must be non-empty string")
    ELSE Ok([algo |-> "pbkdf2_sha256", iters |-> PBKDF2_ITERS_DEFAULT, salt |-> salt,
             dk |-> Pbkdf2(password.v, salt, PBKDF2_ITERS_DEFAULT)])

\* verify_password comparing nothing
verify_password_any(password, stored) == stored.algo = "pbkdf2_sha256"

\* verify_password: any exception inside (password not a str) gives False
verify_password(password, stored) ==
    /\ stored.algo = "pbkdf2_sha256"
    /\ password.t = "str"
    /\ Pbkdf2(password.v, stored.salt, stored.iters) = stored.dk

\* get_user_by_username: the row or None
get_user_by_username(utab, username) ==
    LET rows == SelectSeq(utab, LAMBDA r : r.username = username)
    IN IF rows = <<>> THEN PyNone ELSE [t |-> "dict", v |-> rows[1]]

\* authenticate without the is_active test
authenticate_inactive(utab, username, password) ==
    LET u == get_user_by_username(utab, Strip(PyOr(PyStr(username), PyStr(s_empty)).v))
    IN IF u.t = "none" THEN PyNone
       ELSE IF ~verify_password(PyOr(password, PyStr(s_empty)), u.v.password_hash) THEN PyNone
       ELSE u

\* authenticate: username is a str, password a Python value
authenticate(utab, username, password) ==
    LET u == get_user_by_username(utab, Strip(PyOr(PyStr(username), PyStr(s_empty)).v))
    IN IF u.t = "none" THEN PyNone
       ELSE IF ~u.v.is_active THEN PyNone
       ELSE IF ~verify_password(PyOr(password, PyStr(s_empty)), u.v.password_hash) THEN PyNone
       ELSE u

\* create_user on a table without the unique index on username
create_user_nonunique(utab, username, password, is_admin, is_active, salt) ==
    LET u == Strip(PyOr(PyStr(username), PyStr(s_empty)).v)
        pw == PyOr(password, PyStr(s_empty))
        h == hash_password(password, salt)
    IN IF ~(MinUsernameLen <= Len(u) /\ Len(u) <= MaxUsernameLen)
          \/ \E i \in 1..Len(u) : IsSpace(u[i])
       THEN Raise("ValueError", "Username must be 3..32 chars, no spaces")
       ELSE IF pw.t # "str"
       THEN Raise("TypeError", NoLen(pw))
       ELSE IF Len(pw.v) < MinPasswordLen
       THEN Raise("ValueError", "Password must be at least 4 chars")
       ELSE IF ~h.ok THEN h
       ELSE Ok([users |-> Append(utab, [id |-> Len(utab) + 1, username |-> u,
                                        password_hash |-> h.v, is_admin |-> is_admin,
                                        is_active |-> is_active]),
                id |-> Len(utab) + 1])

\* create_user storing the new account deactivated
create_user_inactive(utab, username, password, is_admin, is_active, salt) ==
    LET u == Strip(PyOr(PyStr(username), PyStr(s_empty)).v)
        pw == PyOr(password, PyStr(s_empty))
        h == hash_password(password, salt)
    IN IF ~(MinUsernameLen <= Len(u) /\ Len(u) <= MaxUsernameLen)
          \/ \E i \in 1..Len(u) : IsSpace(u[i])
       THEN Raise("ValueError", "Username must be 3..32 chars, no spaces")
       ELSE IF pw.t # "str"
       THEN Raise("TypeError", NoLen(pw))
       ELSE IF Len(pw.v) < MinPasswordLen
       THEN Raise("ValueError", "Password must be at least 4 chars")
       ELSE IF ~h.ok THEN h
       ELSE IF \E i \in 1..Len(utab) : utab[i].username = u
       THEN Raise("ValueError", "Username already exists")
       ELSE Ok([users |-> Append(utab, [id |-> Len(utab) + 1, username |-> u,
                                        password_hash |-> h.v, is_admin |-> is_admin,
                                        is_active |-> FALSE]),
                id |-> Len(utab) + 1])

\* create_user: Ok([users, id]) or the exception raised
create_user(utab, username, password, is_admin, is_active, salt) ==
    LET u == Strip(PyOr(PyStr(username), PyStr(s_empty)).v)
        pw == PyOr(password, PyStr(s_empty))
        h == hash_password(password, salt)
    IN IF ~(MinUsernameLen <= Len(u) /\ Len(u) <= MaxUsernameLen)
          \/ \E i \in 1..Len(u) : IsSpace(u[i])
       THEN Raise("ValueError", "Username must be 3..32 chars, no spaces")
       ELSE IF pw.t # "str"
       THEN Raise("TypeError", NoLen(pw))
       ELSE IF Len(pw.v) < MinPasswordLen
       THEN Raise("ValueError", "Password must be at least 4 chars")
       ELSE IF ~h.ok THEN h
       ELSE IF \E i \in 1..Len(utab) : utab[i].username = u
       THEN Raise("ValueError", "Username already exists")
       ELSE Ok([users |-> Append(utab, [id |-> Len(utab) + 1, username |-> u,
                                        password_hash |-> h.v, is_admin |-> is_admin,
                                        is_active |-> is_active]),
                id |-> Len(utab) + 1])

\* what a VARCHAR column of the SQLite store holds after x was bound to it:
\* numbers (and booleans, bound as 0 or 1) are converted to their text
ColumnText(x) ==
    CASE x.t = "int" -> PyStr(IntToStr(x.v))
      [] x.t = "int64" -> PyStr(x.v)
      [] x.t = "bool" -> PyStr(IF x.v THEN <<49>> ELSE <<48>>)
      [] x.t = "str" -> x
      [] x.t = "none" -> x

\* binding x to a column raises when x is an integer SQLite cannot hold
Unbindable(x) == x.t = "bigint"

\* the value insert_message binds to column "sticker" and returns
StickerOf(kind, sticker) ==
    IF kind = s_sticker THEN PyStr(Strip(PyOr(sticker, PyStr(s_empty)).v)) ELSE sticker

\* insert_message on a table whose reply_to references messages.id
insert_message_fk(mtab, user_id, content, kind, sticker, reply_to) ==
    LET k0 == StrLower(Strip(PyOr(PyStr(kind), PyStr(s_text)).v))
        k == IF k0 \notin {s_text, s_sticker} THEN s_text ELSE k0
        c0 == PyOr(content, PyStr(s_empty))
        st0 == PyOr(sticker, PyStr(s_empty))
    IN IF c0.t # "str"
       THEN Raise("AttributeError", NoStrip(c0))
       ELSE IF k = s_text /\ Strip(c0.v) = <<>> THEN Raise("ValueError", "Empty message")
       ELSE IF Len(Strip(c0.v)) > MaxContentLen
       THEN Raise("ValueError", "Message is too long (max 2000 chars)")
       ELSE IF k = s_sticker /\ st0.t # "str"
       THEN Raise("AttributeError", NoStrip(st0))
       ELSE IF k = s_sticker /\ Strip(st0.v) = <<>> THEN Raise("ValueError", "Sticker is empty")
       ELSE IF Unbindable(StickerOf(k, sticker)) \/ Unbindable(reply_to)
       THEN Raise("OverflowError", "Python int too large to convert to SQLite INTEGER")
       ELSE IF reply_to.t = "int64" \/ (reply_to.t = "int" /\ reply_to.v \notin 1..Len(mtab))
       THEN Raise("IntegrityError", "FOREIGN KEY constraint failed")
       ELSE LET row == [id |-> Len(mtab) + 1,
                        user_id |-> user_id,
                        kind |-> k,
                        sticker |-> StickerOf(k, sticker),
                        reply_to |-> reply_to,
                        content |-> IF k = s_text THEN Strip(c0.v) ELSE s_empty]
                stored == [row EXCEPT !.sticker = ColumnText(@)]
            IN Ok([messages |-> Append(mtab, stored), base |-> row])

\* insert_message: Ok([messages, base]) or the exception raised; base is the
\* dict it returns, built from its arguments, not read back from the table.
\* content, sticker: Python values; kind: a str; reply_to: None or an int
insert_message(mtab, user_id, content, kind, sticker, reply_to) ==
    LET k0 == StrLower(Strip(PyOr(PyStr(kind), PyStr(s_text)).v))
        k == IF k0 \notin {s_text, s_sticker} THEN s_text ELSE k0
        c0 == PyOr(content, PyStr(s_empty))
        st0 == PyOr(sticker, PyStr(s_empty))
    IN IF c0.t # "str"
       THEN Raise("AttributeError", NoStrip(c0))
       ELSE IF k = s_text /\ Strip(c0.v) = <<>> THEN Raise("ValueError", "Empty message")
       ELSE IF Len(Strip(c0.v)) > MaxContentLen
       THEN Raise("ValueError", "Message is too long (max 2000 chars)")
       ELSE IF k = s_sticker /\ st0.t # "str"
       THEN Raise("AttributeError", NoStrip(st0))
       ELSE IF k = s_sticker /\ Strip(st0.v) = <<>> THEN Raise("ValueError", "Sticker is empty")
       ELSE IF Unbindable(StickerOf(k, sticker)) \/ Unbindable(reply_to)
       THEN Raise("OverflowError", "Python int too large to convert to SQLite INTEGER")
       ELSE LET row == [id |-> Len(mtab) + 1,
                        user_id |-> user_id,
                        kind |-> k,
                        sticker |-> StickerOf(k, sticker),
                        reply_to |-> reply_to,
                        content |-> IF k = s_text THEN Strip(c0.v) ELSE s_empty]
                stored == [row EXCEPT !.sticker = ColumnText(@)]
            IN Ok([messages |-> Append(mtab, stored), base |-> row])

Min(a, b) == IF a < b THEN a ELSE b
Max(a, b) == IF a > b THEN a ELSE b

\* fetch_history returning the oldest `limit` messages, not the most recent
fetch_history_oldest(mtab, utab, limit) ==
    LET lim == Max(1, Min(HistoryLimitMax, limit))
        joined == SelectSeq(mtab, LAMBDA m : \E i \in 1..Len(utab) : utab[i].id = m.user_id)
        n == Len(joined)
        rows == SubSeq(joined, 1, Min(n, lim))
    IN [i \in 1..Len(rows) |->
          [id |-> rows[i].id,
           user_id |-> rows[i].user_id,
           username |-> (CHOOSE u \in Range(utab) : u.id = rows[i].user_id).username,
           kind |-> IF rows[i].kind = <<>> THEN s_text ELSE rows[i].kind,
           sticker |-> rows[i].sticker,
           reply_to |-> rows[i].reply_to,
           content |-> rows[i].content]]

\* fetch_history: the last `limit` messages joined with their user, oldest first
fetch_history(mtab, utab, limit) ==
    LET lim == Max(1, Min(HistoryLimitMax, limit))
        joined == SelectSeq(mtab, LAMBDA m : \E i \in 1..Len(utab) : utab[i].id = m.user_id)
        n == Len(joined)
        rows == SubSeq(joined, Max(1, n - lim + 1), n)
    IN [i \in 1..Len(rows) |->
          [id |-> rows[i].id,
           user_id |-> rows[i].user_id,
           username |-> (CHOOSE u \in Range(utab) : u.id = rows[i].user_id).username,
           kind |-> IF rows[i].kind = <<>> THEN s_text ELSE rows[i].kind,
           sticker |-> rows[i].sticker,
           reply_to |-> rows[i].reply_to,
           content |-> rows[i].content]]

(***************************************************************************)
(* Frames a client may send (the text of one websocket message, parsed).   *)
(* json = "invalid": not JSON; "value": JSON that is not an object;        *)
(* "object": a JSON object, a missing key being None as msg.get gives it.  *)
(***************************************************************************)
NoFrame == [json |-> "none"]

Obj(type, username, password, kind, content, sticker, reply_to, is_admin) ==
    [json |-> "object", type |-> type, username |-> username, password |-> password,
     kind |-> kind, content |-> content, sticker |-> sticker, reply_to |-> reply_to,
     is_admin |-> is_admin]

Plain(type) == Obj(type, PyNone, PyNone, PyNone, PyNone, PyNone, PyNone, PyNone)

Login(u, p) == Obj("login", u, p, PyNone, PyNone, PyNone, PyNone, PyNone)

Send(kind, content, sticker, reply_to) ==
    Obj("send", PyNone, PyNone, kind, content, sticker, reply_to, PyNone)

AdminCreate(u, p, adm) ==
    Obj("admin_create_user", u, p, PyNone, PyNone, PyNone, PyNone, adm)

\* 2**31 in decimal
s_2p31 == <<50, 49, 52, 55, 52, 56, 51, 54, 52, 56>>

\* a reply_to whose repr is longer than ReprWidth
s_a199 == [i \in 1..(ReprWidth - 1) |-> 97]

\* a content of MaxContentLen + 1 characters
s_long == [i \in 1..(MaxContentLen + 1) |-> 97]

LoginFrames ==
    { Login(PyStr(s_alice), PyStr(s_pw)),
      Login(PyStr(s_alice_sp), PyStr(s_pw)),
      Login(PyStr(s_Bob), PyStr(s_pw)),
      Login(PyStr(s_admin), PyStr(s_pw)),
      Login(PyStr(s_zed), PyStr(s_pw)),
      Login(PyStr(s_eve), PyStr(s_pw)),
      Login(PyStr(s_alice), PyStr(s_nope)),
      Login(PyStr(s_alice), PyInt(5)),
      Login(PyNone, PyNone),
      Login(PyInt(5), PyStr(s_pw)) }

SendFrames ==
    { Send(PyStr(s_text), PyStr(s_hi), PyNone, PyNone),
      Send(PyNone, PyStr(s_hi_sp), PyNone, PyInt(7)),
      Send(PyStr(s_text), PyStr(s_hi), PyNone, PyStr(s_7)),
      Send(PyStr(s_Sticker_sp), PyNone, PyStr(s_smile), PyNone),
      Send(PyStr(s_image), PyStr(s_hi), PyNone, PyNone),
      Send(PyStr(s_text), PyStr(s_hi), PyStr(s_smile), PyNone),
      Send(PyStr(s_text), PyStr(s_hi), PyInt(7), PyNone),
      Send(PyStr(s_text), PyStr(s_blank), PyNone, PyNone),
      Send(PyStr(s_text), PyStr(s_long), PyNone, PyNone),
      Send(PyStr(s_sticker), PyStr(s_hi), PyNone, PyNone),
      Send(PyStr(s_text), PyInt(7), PyNone, PyNone),
      Send(PyStr(s_sticker), PyNone, PyInt(7), PyNone),
      Send(PyStr(s_text), PyStr(s_hi), PyNone, PyStr(s_abc)),
      Send(PyInt(5), PyStr(s_hi), PyNone, PyNone),
      Send(PyStr(s_text), PyStr(s_hi), PyNone, PyBigInt),
      Send(PyStr(s_text), PyStr(s_hi), PyNone, PyStr(s_neg7)),
      Send(PyStr(s_text), PyStr(s_hi), PyBigInt, PyNone),
      Send(PyStr(s_text), PyStr(s_hi), PyNone, PyStr(s_int64_min)),
      Send(PyStr(s_text), PyStr(s_hi), PyNone, PyStr(s_2p31)),
      Send(PyStr(s_text), PyStr(s_hi), PyNone, PyStr(s_a199)),
      Obj("send", PyStr(s_admin), PyStr(s_pw), PyStr(s_text), PyStr(s_hi), PyNone, PyNone,
          PyBool(TRUE)) }

AdminCreateFrames ==
    { AdminCreate(PyStr(s_zed), PyStr(s_pw), PyNone),
      AdminCreate(PyStr(s_bob), PyStr(s_pw), PyBool(TRUE)),
      AdminCreate(PyStr(s_alice), PyStr(s_pw), PyNone),
      AdminCreate(PyStr(s_a_b), PyStr(s_pw), PyNone),
      AdminCreate(PyStr(s_zed), PyStr(s_abc), PyNone),
      AdminCreate(PyStr(s_zed), PyInt(1234), PyNone),
      AdminCreate(PyInt(5), PyStr(s_pw), PyNone),
      AdminCreate(PyInt(0), PyStr(s_pw), PyNone) }

RoomFrames == { Plain("join"), Plain("history_room") }

UnknownFrames == { Plain("bogus"), Plain("None") }

OtherFrames == { Plain("who_online") } \cup UnknownFrames

ObjectFrames == LoginFrames \cup SendFrames \cup AdminCreateFrames \cup RoomFrames \cup OtherFrames

\* the frames of Spec, which explores the interleavings of the tasks
CoreLoginFrames ==
    { Login(PyStr(s_alice), PyStr(s_pw)),
      Login(PyStr(s_Bob), PyStr(s_pw)),
      Login(PyStr(s_alice), PyStr(s_nope)) }

CoreSendFrames ==
    { Send(PyStr(s_text), PyStr(s_hi), PyNone, PyNone),
      Send(PyStr(s_text), PyStr(s_blank), PyNone, PyNone) }

CoreObjectFrames == CoreLoginFrames \cup CoreSendFrames \cup { Plain("who_online") }

(***************************************************************************)
(* Events the server sends.                                                *)
(***************************************************************************)
NoEv == [type |-> "none"]
\* message texts are sequences of pieces: f"Send failed: {e}" is <<"Send failed: ", e>>
EvError(m) == [type |-> "error", message |-> m]
EvLoginError == [type |-> "login_error", message |-> <<"Invalid credentials or inactive user">>]
EvLoginOk(u) == [type |-> "login_ok", username |-> u.username, is_admin |-> u.is_admin]
EvHistory(h) == [type |-> "history", messages |-> h]
EvPresence(online) == [type |-> "presence", online |-> online]
EvMessage(full) == [type |-> "message", message |-> full]
EvAdminOk(u) == [type |-> "admin_create_user_ok", username |-> u]
EvAdminError(m) == [type |-> "admin_create_user_error", message |-> m]

(***************************************************************************)
(* State.                                                                  *)
(***************************************************************************)
VARIABLES
    users,      \* Store: table users
    messages,   \* Store: table messages
    CONNS,      \* server.CONNS: the connections broadcast sends to
    SESSIONS,   \* server.SESSIONS: connection -> session dict
    alive,      \* transport: alive[c] iff ws.send on c succeeds (c is open)
    pc,         \* where the handler task of each connection stands
    ret,        \* where the handler goes on when its outermost broadcast returns
    stack,      \* the broadcast calls in progress in each handler task, innermost last
    running,    \* the connection whose task runs synchronous code, 0 if none
    naccepted,  \* connections accepted so far; they are 1..naccepted
    budget,     \* events the environment may still perform
    evicted,    \* connections broadcast has removed after a failed send (observation)
    last,       \* what the last step did (observation, never read by the actions)
    worker      \* the client's WsWorker: loop, cmd_q, the place of _main (pc), the
                \* tasks of receiver() and sender(), its connection (ws), the frames
                \* sent to it and not yet received (inbox), the Qt signals emitted
                \* (signals), whether stop() was called, the callbacks handed to
                \* its loop and not yet run (ready), and the events the GUI and
                \* the server may still perform on it (budget)

vars == <<users, messages, CONNS, SESSIONS, alive, pc, ret, stack, running,
          naccepted, budget, evicted, last, worker>>

store == <<users, messages>>
registry == <<CONNS, SESSIONS>>

\* the record of a step: the task c that ran, the frame it read, whether its
\* session passed require_authed, the one send it attempted (to, ev, ok), the
\* event whose broadcast it started, whether it stored a message
Did(op, c, frame, authed, to, ev, ok, bcast, stored) ==
    [op |-> op, c |-> c, frame |-> frame, authed |-> authed, to |-> to, ev |-> ev,
     ok |-> ok, bcast |-> bcast, stored |-> stored]

Quiet(op, c) == Did(op, c, NoFrame, FALSE, 0, NoEv, FALSE, NoEv, FALSE)

(***************************************************************************)
(* Registry and presence (src/server.py).                                  *)
(***************************************************************************)
\* the session dict handler stores at accept
Unauthed == [authed |-> FALSE]

\* AuthedSession leaving out user_id and is_admin
AuthedSessionPartial(u) == [authed |-> TRUE, username |-> u.username]

\* the session dict handler stores on a successful login
AuthedSession(u) ==
    [authed |-> TRUE, user_id |-> u.id, username |-> u.username, is_admin |-> u.is_admin]

\* SESSIONS[ws] = d
SessionsPut(sess, c, d) == [x \in DOMAIN sess \cup {c} |-> IF x = c THEN d ELSE sess[x]]

\* SESSIONS.pop(ws, None)
SessionsPop(sess, c) == [x \in DOMAIN sess \ {c} |-> sess[x]]

\* require_authed testing only that the session exists
require_authed_present(sess, c) == c \in DOMAIN sess

\* require_authed: TRUE iff it returns the session instead of raising
require_authed(sess, c) == c \in DOMAIN sess /\ sess[c].authed

\* the orders in which a set may be iterated
Perms(S) ==
    {p \in [1..Cardinality(S) -> S] : \A i, j \in 1..Cardinality(S) : p[i] = p[j] => i = j}

\* InsertByLower comparing the names themselves, not their lower-case keys
RECURSIVE InsertByCode(_, _)
InsertByCode(q, x) ==
    IF q = <<>> THEN <<x>>
    ELSE IF StrLess(x, Head(q)) THEN <<x>> \o q
    ELSE <<Head(q)>> \o InsertByCode(Tail(q), x)

\* insert x into the sorted q behind every element whose key is not greater
RECURSIVE InsertByLower(_, _)
InsertByLower(q, x) ==
    IF q = <<>> THEN <<x>>
    ELSE IF StrLess(StrLower(x), StrLower(Head(q))) THEN <<x>> \o q
    ELSE <<Head(q)>> \o InsertByLower(Tail(q), x)

\* sorted(q, key=lambda x: x.lower()): a stable sort
RECURSIVE SortedByLower(_)
SortedByLower(q) ==
    IF q = <<>> THEN <<>>
    ELSE InsertByLower(SortedByLower(SubSeq(q, 1, Len(q) - 1)), q[Len(q)])

\* online_usernames: the lists it may return (set(names) is iterated in an
\* order the code does not fix; names equal up to case keep that order)
online_usernames(sess) ==
    LET names == {sess[w].username :
                    w \in {x \in DOMAIN sess :
                             /\ sess[x].authed
                             /\ "username" \in DOMAIN sess[x]
                             /\ sess[x].username # <<>>}}
    IN {SortedByLower(p) : p \in Perms(names)}

\* the local state of one call of broadcast: the event, list(CONNS), the part
\* of it the loop has not reached, the connections whose send succeeded, the
\* list dead and how many of dead have been cleaned up
BroadcastCall(ev, conns) ==
    [ev |-> ev, snap |-> conns, todo |-> conns, sent |-> {}, dead |-> <<>>, cleaned |-> 0]

Top(c) == stack[c][Len(stack[c])]
Push(c, call) == [stack EXCEPT ![c] = Append(@, call)]
SetTop(c, call) == [stack EXCEPT ![c] = [@ EXCEPT ![Len(@)] = call]]
Pop(c) == [stack EXCEPT ![c] = SubSeq(@, 1, Len(@) - 1)]

(***************************************************************************)
(* Initial state: the Store as server_start.py and earlier runs left it    *)
(* (an admin, two users, one deactivated account), nobody connected.       *)
(***************************************************************************)
InitUser(id, name, adm, act) ==
    [id |-> id, username |-> name,
     password_hash |-> hash_password(PyStr(s_pw), "salt0").v,
     is_admin |-> adm, is_active |-> act]

InitUsers ==
    << InitUser(1, s_admin, TRUE, TRUE), InitUser(2, s_alice, FALSE, TRUE),
       InitUser(3, s_Bob, FALSE, TRUE), InitUser(4, s_eve, FALSE, FALSE) >>

\* src/ws_worker.py lines 24-32: WsWorker.__init__; nothing runs yet
WorkerNew(n) ==
    worker = [ loop |-> "none", cmd_q |-> PyNone, pc |-> "new",
               recv_task |-> "none", send_task |-> "none", ws |-> "none",
               inbox |-> <<>>, signals |-> <<>>, stop_called |-> FALSE,
               ready |-> <<>>, budget |-> n ]

ServerInit(n) ==
    /\ users = InitUsers
    /\ messages = <<>>
    /\ CONNS = {}
    /\ SESSIONS = [x \in {} |-> Unauthed]
    /\ alive = [x \in {} |-> FALSE]
    /\ pc = [x \in {} |-> "recv"]
    /\ ret = [x \in {} |-> "recv"]
    /\ stack = [x \in {} |-> <<>>]
    /\ running = 0
    /\ naccepted = 0
    /\ budget = n
    /\ evicted = {}
    /\ last = Quiet("init", 0)

InitWith(n) == ServerInit(n) /\ WorkerNew(0)

Init == InitWith(MaxEvents)

InitV == InitWith(MaxEventsV)

(***************************************************************************)
(* The branches of handler as functions of what they read.                 *)
(***************************************************************************)
\* the login branch up to the test `if not u`: "raise" when .strip() is
\* applied to a username that is not a str, else the result of authenticate
handle_login(utab, f) ==
    LET name0 == PyOr(f.username, PyStr(s_empty))
    IN IF name0.t # "str" THEN [out |-> "raise"]
       ELSE [out |-> "auth",
             u |-> authenticate(utab, Strip(name0.v), PyOr(f.password, PyStr(s_empty)))]

\* the message event handler assembles from the row insert_message returns
FullMessage(sess, base) ==
    [id |-> base.id, user_id |-> sess.user_id, username |-> sess.username,
     kind |-> base.kind, sticker |-> base.sticker, reply_to |-> base.reply_to,
     content |-> base.content]

\* handle_send taking the username of the message event from the frame when
\* the frame has one
handle_send_claimed(mtab, sess, f) ==
    LET kind0 == PyOr(f.kind, PyStr(s_text))
        content == PyOr(f.content, PyStr(s_empty))
        rt == IF f.reply_to.t = "none" THEN Ok(PyNone) ELSE PyIntOf(f.reply_to)
    IN IF kind0.t # "str" THEN [out |-> "raise"]
       ELSE LET res == IF "user_id" \notin DOMAIN sess THEN Raise("KeyError", "'user_id'")
                       ELSE IF rt.ok
                       THEN insert_message(mtab, sess.user_id, content,
                                           StrLower(Strip(kind0.v)), f.sticker, rt.v)
                       ELSE rt
                who == IF f.username.t = "str"
                       THEN [sess EXCEPT !.username = f.username.v] ELSE sess
            IN IF ~res.ok
               THEN [out |-> "error", ev |-> EvError(<<"Send failed: ">> \o res.msg)]
               ELSE [out |-> "stored", messages |-> res.v.messages,
                     ev |-> EvMessage(FullMessage(who, res.v.base))]

\* the send branch: "raise" when kind is not a str (outside the try), "error"
\* with the reply when the try block raises (sess["user_id"], int(reply_to)
\* and insert_message are inside it), else "stored"
handle_send(mtab, sess, f) ==
    LET kind0 == PyOr(f.kind, PyStr(s_text))
        content == PyOr(f.content, PyStr(s_empty))
        rt == IF f.reply_to.t = "none" THEN Ok(PyNone) ELSE PyIntOf(f.reply_to)
    IN IF kind0.t # "str" THEN [out |-> "raise"]
       ELSE LET res == IF "user_id" \notin DOMAIN sess THEN Raise("KeyError", "'user_id'")
                       ELSE IF rt.ok
                       THEN insert_message(mtab, sess.user_id, content,
                                           StrLower(Strip(kind0.v)), f.sticker, rt.v)
                       ELSE rt
            IN IF ~res.ok
               THEN [out |-> "error", ev |-> EvError(<<"Send failed: ">> \o res.msg)]
               ELSE [out |-> "stored", messages |-> res.v.messages,
                     ev |-> EvMessage(FullMessage(sess, res.v.base))]

\* handle_admin_create_user without the is_admin test
handle_admin_create_user_open(utab, sess, f, salt) ==
    LET name0 == PyOr(f.username, PyStr(s_empty))
    IN IF name0.t # "str" THEN [out |-> "raise"]
       ELSE LET r == create_user(utab, Strip(name0.v), PyOr(f.password, PyStr(s_empty)),
                                 Truthy(f.is_admin), TRUE, salt)
            IN IF r.ok
               THEN [out |-> "created", users |-> r.v.users,
                     ev |-> EvAdminOk(Strip(name0.v))]
               ELSE [out |-> "error", ev |-> EvAdminError(r.msg)]

\* the admin_create_user branch for the salt hash_password draws
handle_admin_create_user(utab, sess, f, salt) ==
    LET name0 == PyOr(f.username, PyStr(s_empty))
    IN IF ~("is_admin" \in DOMAIN sess /\ sess.is_admin)
       THEN [out |-> "error", ev |-> EvAdminError(<<"Admin only">>)]
       ELSE IF name0.t # "str" THEN [out |-> "raise"]
       ELSE LET r == create_user(utab, Strip(name0.v), PyOr(f.password, PyStr(s_empty)),
                                 Truthy(f.is_admin), TRUE, salt)
            IN IF r.ok
               THEN [out |-> "created", users |-> r.v.users,
                     ev |-> EvAdminOk(Strip(name0.v))]
               ELSE [out |-> "error", ev |-> EvAdminError(r.msg)]

\* broadcast_send without the try: a failed send ends the loop
broadcast_send_abort(call, w, ok) ==
    [call EXCEPT !.todo = IF ok THEN @ \ {w} ELSE {},
                 !.sent = IF ok THEN @ \cup {w} ELSE @,
                 !.dead = IF ok THEN @ ELSE Append(@, w)]

\* broadcast_send forgetting the connection whose send raised
broadcast_send_forget(call, w, ok) ==
    [call EXCEPT !.todo = @ \ {w},
                 !.sent = IF ok THEN @ \cup {w} ELSE @]

\* one iteration of the loop of broadcast: w.send succeeded (ok) or raised
broadcast_send(call, w, ok) ==
    [call EXCEPT !.todo = @ \ {w},
                 !.sent = IF ok THEN @ \cup {w} ELSE @,
                 !.dead = IF ok THEN @ ELSE Append(@, w)]

(***************************************************************************)
(* Steps.                                                                  *)
(***************************************************************************)
\* await send_json(ws, ev) in handler: on success the handler goes on at
\* `next`, on failure the exception leaves the loop for the finally clause
Reply(c, next) ==
    /\ pc' = [pc EXCEPT ![c] = IF alive[c] THEN next ELSE "finally"]
    /\ running' = 0

\* an exception other than ConnectionClosed leaves handler through finally
Raised(c) ==
    /\ pc' = [pc EXCEPT ![c] = "finally"]
    /\ running' = c

\* the per-connection variables of a newly accepted connection c
Grow(f, c, v) == [x \in DOMAIN f \cup {c} |-> IF x = c THEN v ELSE f[x]]

\* websockets.serve starts handler for a new connection (lines 68-73)
Accept(c) ==
    /\ running = 0
    /\ budget > 0
    /\ c = naccepted + 1
    /\ naccepted' = c
    /\ budget' = budget - 1
    /\ CONNS' = CONNS \cup {c}
    /\ SESSIONS' = SessionsPut(SESSIONS, c, Unauthed)
    /\ alive' = Grow(alive, c, TRUE)
    /\ pc' = Grow(pc, c, "recv")
    /\ ret' = Grow(ret, c, "recv")
    /\ stack' = Grow(stack, c, <<>>)
    /\ UNCHANGED worker
    /\ last' = Quiet("accept", c)
    /\ UNCHANGED <<users, messages, running, evicted>>

\* the peer closes the connection, or the transport fails
Close(c) ==
    /\ running = 0
    /\ budget > 0
    /\ c \in DOMAIN alive
    /\ alive[c]
    /\ budget' = budget - 1
    /\ alive' = [alive EXCEPT ![c] = FALSE]
    /\ UNCHANGED worker
    /\ last' = Quiet("close", c)
    /\ UNCHANGED <<users, messages, CONNS, SESSIONS, pc, ret, stack, running,
                   naccepted, evicted>>

\* the task of c stands at `at` and may be resumed by the event loop
Parked(c, at) ==
    /\ running = 0
    /\ c \in DOMAIN pc
    /\ pc[c] = at

\* the task of c stands at `at`, in synchronous code or resumable
Ready(c, at) ==
    /\ running \in {0, c}
    /\ c \in DOMAIN pc
    /\ pc[c] = at

\* `async for raw in ws` ends on a closed connection (lines 73, 182-184)
EndOfStream(c) ==
    /\ Parked(c, "recv")
    /\ ~alive[c]
    /\ pc' = [pc EXCEPT ![c] = "finally"]
    /\ running' = c
    /\ UNCHANGED worker
    /\ last' = Quiet("eof", c)
    /\ UNCHANGED <<users, messages, CONNS, SESSIONS, alive, ret, stack,
                   naccepted, budget, evicted>>

\* a frame handed to a new task while the broadcast of the previous frame
\* of c is still sending
RecvReady_concurrent(c) ==
    /\ running = 0
    /\ c \in DOMAIN pc
    /\ pc[c] \in {"recv", "broadcast"}
    /\ budget > 0
    /\ budget' = budget - 1

\* the handler of c is handed the next frame (frames received before a close
\* are still handed over after it)
RecvReady(c) ==
    /\ Parked(c, "recv")
    /\ budget > 0
    /\ budget' = budget - 1

\* lines 74-78
RecvInvalidJson(c) ==
    /\ RecvReady(c)
    /\ Reply(c, "recv")
    /\ UNCHANGED worker
    /\ last' = Did("frame", c, [json |-> "invalid"], require_authed(SESSIONS, c), c,
                   EvError(<<"Invalid JSON">>), alive[c], NoEv, FALSE)
    /\ UNCHANGED <<users, messages, CONNS, SESSIONS, alive, ret, stack, naccepted, evicted>>

\* line 80 on JSON that is not an object: msg.get raises AttributeError
RecvNotObject(c) ==
    /\ RecvReady(c)
    /\ Raised(c)
    /\ UNCHANGED worker
    /\ last' = Did("frame", c, [json |-> "value"], require_authed(SESSIONS, c), 0,
                   NoEv, FALSE, NoEv, FALSE)
    /\ UNCHANGED <<users, messages, CONNS, SESSIONS, alive, ret, stack, naccepted, evicted>>

\* lines 83-102 for a frame of F
RecvLogin(c, F) ==
    /\ RecvReady(c)
    /\ \E f \in F :
         LET h == handle_login(users, f)
             was == require_authed(SESSIONS, c)
         IN IF h.out = "raise"
            THEN /\ Raised(c)
                 /\ UNCHANGED worker
                 /\ last' = Did("frame", c, f, was, 0, NoEv, FALSE, NoEv, FALSE)
                 /\ UNCHANGED SESSIONS
            ELSE IF h.u.t = "none"
            THEN /\ Reply(c, "recv")
                 /\ UNCHANGED worker
                 /\ last' = Did("frame", c, f, was, c, EvLoginError, alive[c], NoEv, FALSE)
                 /\ UNCHANGED SESSIONS
            ELSE /\ SESSIONS' = SessionsPut(SESSIONS, c, AuthedSession(h.u.v))
                 /\ Reply(c, "login_hist")
                 /\ UNCHANGED worker
                 /\ last' = Did("frame", c, f, was, c, EvLoginOk(h.u.v), alive[c], NoEv, FALSE)
    /\ UNCHANGED <<users, messages, CONNS, alive, ret, stack, naccepted, evicted>>

\* LoginHistory going on to the presence broadcast without sending history
LoginHistory_skipped(c) ==
    /\ Parked(c, "login_hist")
    /\ pc' = [pc EXCEPT ![c] = "login_presence"]
    /\ running' = 0
    /\ UNCHANGED worker
    /\ last' = Quiet("history", c)
    /\ UNCHANGED <<users, messages, CONNS, SESSIONS, alive, ret, stack,
                   naccepted, budget, evicted>>

\* lines 104-106
LoginHistory(c) ==
    /\ Parked(c, "login_hist")
    /\ Reply(c, "login_presence")
    /\ UNCHANGED worker
    /\ last' = Did("history", c, NoFrame, FALSE, c,
                   EvHistory(fetch_history(messages, users, HistoryLimit)), alive[c],
                   NoEv, FALSE)
    /\ UNCHANGED <<users, messages, CONNS, SESSIONS, alive, ret, stack,
                   naccepted, budget, evicted>>

\* LoginPresence sending presence to the connection that logged in only
LoginPresence_self(c) ==
    /\ Parked(c, "login_presence")
    /\ \E online \in online_usernames(SESSIONS) :
         /\ stack' = Push(c, BroadcastCall(EvPresence(online), {c}))
         /\ UNCHANGED worker
         /\ last' = Did("presence", c, NoFrame, FALSE, 0, NoEv, FALSE,
                        EvPresence(online), FALSE)
    /\ pc' = [pc EXCEPT ![c] = "broadcast"]
    /\ ret' = [ret EXCEPT ![c] = "recv"]
    /\ running' = c
    /\ UNCHANGED <<users, messages, CONNS, SESSIONS, alive, naccepted, budget, evicted>>

\* lines 108-110, up to list(CONNS) in broadcast
LoginPresence(c) ==
    /\ Parked(c, "login_presence")
    /\ \E online \in online_usernames(SESSIONS) :
         /\ stack' = Push(c, BroadcastCall(EvPresence(online), CONNS))
         /\ UNCHANGED worker
         /\ last' = Did("presence", c, NoFrame, FALSE, 0, NoEv, FALSE,
                        EvPresence(online), FALSE)
    /\ pc' = [pc EXCEPT ![c] = "broadcast"]
    /\ ret' = [ret EXCEPT ![c] = "recv"]
    /\ running' = c
    /\ UNCHANGED <<users, messages, CONNS, SESSIONS, alive, naccepted, budget, evicted>>

\* lines 112-117 for a frame of F
RecvUnauthed(c, F) ==
    /\ RecvReady(c)
    /\ ~require_authed(SESSIONS, c)
    /\ Reply(c, "recv")
    /\ \E f \in F :
         /\ f.type # "login"
         /\ UNCHANGED worker
         /\ last' = Did("frame", c, f, FALSE, c, EvError(<<"Please login first">>),
                        alive[c], NoEv, FALSE)
    /\ UNCHANGED <<users, messages, CONNS, SESSIONS, alive, ret, stack, naccepted, evicted>>

\* RecvSend broadcasting to the other connections only
RecvSend_others(c, F) ==
    /\ RecvReady(c)
    /\ require_authed(SESSIONS, c)
    /\ \E f \in F :
         LET h == handle_send(messages, SESSIONS[c], f)
         IN CASE h.out = "raise" ->
                   /\ Raised(c)
                   /\ UNCHANGED worker
                   /\ last' = Did("frame", c, f, TRUE, 0, NoEv, FALSE, NoEv, FALSE)
                   /\ UNCHANGED <<messages, stack, ret>>
              [] h.out = "error" ->
                   /\ Reply(c, "recv")
                   /\ UNCHANGED worker
                   /\ last' = Did("frame", c, f, TRUE, c, h.ev, alive[c], NoEv, FALSE)
                   /\ UNCHANGED <<messages, stack, ret>>
              [] h.out = "stored" ->
                   /\ messages' = h.messages
                   /\ stack' = Push(c, BroadcastCall(h.ev, CONNS \ {c}))
                   /\ pc' = [pc EXCEPT ![c] = "broadcast"]
                   /\ ret' = [ret EXCEPT ![c] = "recv"]
                   /\ running' = c
                   /\ UNCHANGED worker
                   /\ last' = Did("frame", c, f, TRUE, 0, NoEv, FALSE, h.ev, TRUE)
    /\ UNCHANGED <<users, CONNS, SESSIONS, alive, naccepted, evicted>>

\* lines 120-150 for a frame of F, up to list(CONNS) in broadcast
RecvSend(c, F) ==
    /\ RecvReady(c)
    /\ require_authed(SESSIONS, c)
    /\ \E f \in F :
         LET h == handle_send(messages, SESSIONS[c], f)
         IN CASE h.out = "raise" ->
                   /\ Raised(c)
                   /\ UNCHANGED worker
                   /\ last' = Did("frame", c, f, TRUE, 0, NoEv, FALSE, NoEv, FALSE)
                   /\ UNCHANGED <<messages, stack, ret>>
              [] h.out = "error" ->
                   /\ Reply(c, "recv")
                   /\ UNCHANGED worker
                   /\ last' = Did("frame", c, f, TRUE, c, h.ev, alive[c], NoEv, FALSE)
                   /\ UNCHANGED <<messages, stack, ret>>
              [] h.out = "stored" ->
                   /\ messages' = h.messages
                   /\ stack' = Push(c, BroadcastCall(h.ev, CONNS))
                   /\ pc' = [pc EXCEPT ![c] = "broadcast"]
                   /\ ret' = [ret EXCEPT ![c] = "recv"]
                   /\ running' = c
                   /\ UNCHANGED worker
                   /\ last' = Did("frame", c, f, TRUE, 0, NoEv, FALSE, h.ev, TRUE)
    /\ UNCHANGED <<users, CONNS, SESSIONS, alive, naccepted, evicted>>

\* lines 154-156
\* who_online answered through broadcast_presence
RecvWhoOnline_broadcast(c) ==
    /\ RecvReady(c)
    /\ require_authed(SESSIONS, c)
    /\ \E online \in online_usernames(SESSIONS) :
         /\ stack' = Push(c, BroadcastCall(EvPresence(online), CONNS))
         /\ UNCHANGED worker
         /\ last' = Did("frame", c, Plain("who_online"), TRUE, 0, NoEv, FALSE,
                        EvPresence(online), FALSE)
    /\ pc' = [pc EXCEPT ![c] = "broadcast"]
    /\ ret' = [ret EXCEPT ![c] = "recv"]
    /\ running' = c
    /\ UNCHANGED <<users, messages, CONNS, SESSIONS, alive, naccepted, evicted>>

\* lines 154-156
RecvWhoOnline(c) ==
    /\ RecvReady(c)
    /\ require_authed(SESSIONS, c)
    /\ Reply(c, "recv")
    /\ \E online \in online_usernames(SESSIONS) :
         UNCHANGED worker /\ last' = Did("frame", c, Plain("who_online"), TRUE, c, EvPresence(online),
                     alive[c], NoEv, FALSE)
    /\ UNCHANGED <<users, messages, CONNS, SESSIONS, alive, ret, stack, naccepted, evicted>>

\* lines 159-173 for a frame of F; when the send of admin_create_user_ok
\* raises, the except clause of line 171 runs next
RecvAdminCreateUser(c, F) ==
    /\ RecvReady(c)
    /\ require_authed(SESSIONS, c)
    /\ \E f \in F, salt \in Salts :
         LET h == handle_admin_create_user(users, SESSIONS[c], f, salt)
         IN CASE h.out = "raise" ->
                   /\ Raised(c)
                   /\ UNCHANGED worker
                   /\ last' = Did("frame", c, f, TRUE, 0, NoEv, FALSE, NoEv, FALSE)
                   /\ UNCHANGED users
              [] h.out = "error" ->
                   /\ Reply(c, "recv")
                   /\ UNCHANGED worker
                   /\ last' = Did("frame", c, f, TRUE, c, h.ev, alive[c], NoEv, FALSE)
                   /\ UNCHANGED users
              [] h.out = "created" ->
                   /\ users' = h.users
                   /\ pc' = [pc EXCEPT ![c] = IF alive[c] THEN "recv" ELSE "admin_except"]
                   /\ running' = 0
                   /\ UNCHANGED worker
                   /\ last' = Did("frame", c, f, TRUE, c, h.ev, alive[c], NoEv, FALSE)
    /\ UNCHANGED <<messages, CONNS, SESSIONS, alive, ret, stack, naccepted, evicted>>

\* lines 171-172 after the send of line 170 raised: str(e) is sent
AdminExcept(c) ==
    /\ Parked(c, "admin_except")
    /\ Reply(c, "recv")
    /\ UNCHANGED worker
    /\ last' = Did("admin_except", c, NoFrame, TRUE, c,
                   EvAdminError(<<"ConnectionClosed">>), alive[c], NoEv, FALSE)
    /\ UNCHANGED <<users, messages, CONNS, SESSIONS, alive, ret, stack,
                   naccepted, budget, evicted>>

\* RecvRooms without the branch of line 176: the frame falls through to line 180
RecvRooms_unknown(c, F) ==
    /\ RecvReady(c)
    /\ require_authed(SESSIONS, c)
    /\ Reply(c, "recv")
    /\ \E f \in F :
         UNCHANGED worker /\ last' = Did("frame", c, f, TRUE, c, EvError(<<"Unknown type: ", f.type>>),
                     alive[c], NoEv, FALSE)
    /\ UNCHANGED <<users, messages, CONNS, SESSIONS, alive, ret, stack, naccepted, evicted>>

\* lines 176-178 for a frame of F
RecvRooms(c, F) ==
    /\ RecvReady(c)
    /\ require_authed(SESSIONS, c)
    /\ Reply(c, "recv")
    /\ \E f \in F :
         UNCHANGED worker /\ last' = Did("frame", c, f, TRUE, c,
                     EvError(<<"Rooms are disabled. Single chat only.">>), alive[c],
                     NoEv, FALSE)
    /\ UNCHANGED <<users, messages, CONNS, SESSIONS, alive, ret, stack, naccepted, evicted>>

\* line 180 for a frame of F
RecvUnknown(c, F) ==
    /\ RecvReady(c)
    /\ require_authed(SESSIONS, c)
    /\ Reply(c, "recv")
    /\ \E f \in F :
         UNCHANGED worker /\ last' = Did("frame", c, f, TRUE, c, EvError(<<"Unknown type: ", f.type>>),
                     alive[c], NoEv, FALSE)
    /\ UNCHANGED <<users, messages, CONNS, SESSIONS, alive, ret, stack, naccepted, evicted>>

\* cleanup_ws computing the presence event before it removes the session
cleanup_ws_stale(c, w, stk) ==
    /\ CONNS' = CONNS \ {w}
    /\ SESSIONS' = SessionsPop(SESSIONS, w)
    /\ \E online \in online_usernames(SESSIONS) :
         /\ stack' = [stk EXCEPT ![c] =
                        Append(@, BroadcastCall(EvPresence(online), CONNS \ {w}))]
         /\ UNCHANGED worker
         /\ last' = Did("cleanup", c, NoFrame, FALSE, 0, NoEv, FALSE,
                        EvPresence(online), FALSE)

\* cleanup_ws leaving the session in SESSIONS
cleanup_ws_keep(c, w, stk) ==
    /\ CONNS' = CONNS \ {w}
    /\ SESSIONS' = SESSIONS
    /\ \E online \in online_usernames(SESSIONS) :
         /\ stack' = [stk EXCEPT ![c] =
                        Append(@, BroadcastCall(EvPresence(online), CONNS \ {w}))]
         /\ UNCHANGED worker
         /\ last' = Did("cleanup", c, NoFrame, FALSE, 0, NoEv, FALSE,
                        EvPresence(online), FALSE)

\* cleanup_ws also unregistering the connection whose task calls it
cleanup_ws_caller(c, w, stk) ==
    /\ CONNS' = CONNS \ {w, c}
    /\ SESSIONS' = SessionsPop(SessionsPop(SESSIONS, w), c)
    /\ \E online \in online_usernames(SessionsPop(SessionsPop(SESSIONS, w), c)) :
         /\ stack' = [stk EXCEPT ![c] =
                        Append(@, BroadcastCall(EvPresence(online), CONNS \ {w, c}))]
         /\ UNCHANGED worker
         /\ last' = Did("cleanup", c, NoFrame, FALSE, 0, NoEv, FALSE,
                        EvPresence(online), FALSE)

\* cleanup_ws(w) called in the task of c, whose stack is stk, up to
\* list(CONNS) in broadcast (lines 55-58, 51-52, 40-42)
cleanup_ws(c, w, stk) ==
    /\ CONNS' = CONNS \ {w}
    /\ SESSIONS' = SessionsPop(SESSIONS, w)
    /\ \E online \in online_usernames(SessionsPop(SESSIONS, w)) :
         /\ stack' = [stk EXCEPT ![c] =
                        Append(@, BroadcastCall(EvPresence(online), CONNS \ {w}))]
         /\ UNCHANGED worker
         /\ last' = Did("cleanup", c, NoFrame, FALSE, 0, NoEv, FALSE,
                        EvPresence(online), FALSE)

\* lines 184-185
Finally(c) ==
    /\ Ready(c, "finally")
    /\ cleanup_ws(c, c, stack)
    /\ pc' = [pc EXCEPT ![c] = "broadcast"]
    /\ ret' = [ret EXCEPT ![c] = "done"]
    /\ running' = c
    /\ UNCHANGED <<users, messages, alive, naccepted, budget, evicted>>

\* lines 42-46: one iteration of the loop of the innermost broadcast
BroadcastSend(c) ==
    /\ Ready(c, "broadcast")
    /\ Top(c).todo # {}
    /\ \E w \in Top(c).todo :
         /\ stack' = SetTop(c, broadcast_send(Top(c), w, alive[w]))
         /\ UNCHANGED worker
         /\ last' = Did("send", c, NoFrame, FALSE, w, Top(c).ev, alive[w], NoEv, FALSE)
    /\ running' = 0
    /\ UNCHANGED <<users, messages, CONNS, SESSIONS, alive, pc, ret,
                   naccepted, budget, evicted>>

\* the loop of lines 47-48 passing over a connection of dead without
\* calling cleanup_ws
BroadcastCleanup_skip(c) ==
    /\ Ready(c, "broadcast")
    /\ Top(c).todo = {}
    /\ Top(c).cleaned < Len(Top(c).dead)
    /\ stack' = SetTop(c, [Top(c) EXCEPT !.cleaned = @ + 1])
    /\ UNCHANGED worker
    /\ last' = Quiet("cleanup", c)
    /\ running' = c
    /\ UNCHANGED <<users, messages, CONNS, SESSIONS, alive, pc, ret, naccepted, budget,
                   evicted>>

\* lines 47-48: the next cleanup_ws(w) for w in dead
BroadcastCleanup(c) ==
    /\ Ready(c, "broadcast")
    /\ Top(c).todo = {}
    /\ Top(c).cleaned < Len(Top(c).dead)
    /\ cleanup_ws(c, Top(c).dead[Top(c).cleaned + 1],
                  SetTop(c, [Top(c) EXCEPT !.cleaned = @ + 1]))
    /\ evicted' = evicted \cup {Top(c).dead[Top(c).cleaned + 1]}
    /\ running' = c
    /\ UNCHANGED <<users, messages, alive, pc, ret, naccepted, budget>>

\* a call of broadcast returns: to the loop of the broadcast that called
\* cleanup_ws, or to handler (line 110 or 151: next frame; line 185: the
\* handler ends and websockets closes the connection)
BroadcastReturn(c) ==
    /\ Ready(c, "broadcast")
    /\ Top(c).todo = {}
    /\ Top(c).cleaned = Len(Top(c).dead)
    /\ stack' = Pop(c)
    /\ IF Len(stack[c]) > 1
       THEN /\ running' = c
            /\ UNCHANGED <<pc, alive>>
       ELSE /\ running' = 0
            /\ pc' = [pc EXCEPT ![c] = ret[c]]
            /\ alive' = [alive EXCEPT ![c] = IF ret[c] = "done" THEN FALSE ELSE @]
    /\ UNCHANGED worker
    /\ last' = Quiet("return", c)
    /\ UNCHANGED <<users, messages, CONNS, SESSIONS, ret, naccepted, budget, evicted>>

\* what the tasks do between two events, whatever the frames
Tasks(c) ==
    \/ EndOfStream(c)
    \/ LoginHistory(c)
    \/ LoginPresence(c)
    \/ Finally(c)
    \/ BroadcastSend(c)
    \/ BroadcastCleanup(c)
    \/ BroadcastReturn(c)

\* Spec: every interleaving of the tasks, on the frames of chat traffic
Next ==
    \E c \in 1..MaxEvents :
        \/ Accept(c)
        \/ Close(c)
        \/ RecvNotObject(c)
        \/ RecvLogin(c, CoreLoginFrames)
        \/ RecvUnauthed(c, CoreObjectFrames)
        \/ RecvSend(c, CoreSendFrames)
        \/ RecvWhoOnline(c)
        \/ Tasks(c)

Spec == Init /\ [][Next]_vars

\* SpecV: shorter runs, on every kind of frame
NextV ==
    \E c \in 1..MaxEventsV :
        \/ Accept(c)
        \/ Close(c)
        \/ RecvInvalidJson(c)
        \/ RecvNotObject(c)
        \/ RecvLogin(c, LoginFrames)
        \/ RecvUnauthed(c, ObjectFrames)
        \/ RecvSend(c, SendFrames)
        \/ RecvWhoOnline(c)
        \/ RecvAdminCreateUser(c, AdminCreateFrames)
        \/ AdminExcept(c)
        \/ RecvRooms(c, RoomFrames)
        \/ RecvUnknown(c, UnknownFrames)
        \/ Tasks(c)

SpecV == InitV /\ [][NextV]_vars

\* SpecF: the runs of Spec in which the event loop resumes every task that
\* can go on (a send completes or raises, a closed stream ends)
InitF == InitWith(MaxEventsF)

SpecF == InitF /\ [][Next]_vars /\ \A c \in 1..MaxEventsF : WF_vars(Tasks(c))

\* the table messages after n text messages sent by alice and Bob in turn
StoredMessages(n) ==
    [i \in 1..n |->
       [id |-> i, user_id |-> 2 + (i % 2), kind |-> s_text, sticker |-> PyNone,
        reply_to |-> PyNone, content |-> s_hi]]

\* SpecH: logins and sends on a server whose Store already holds messages
InitH ==
    /\ WorkerNew(0)
    /\ users = InitUsers
    /\ messages \in {StoredMessages(n) : n \in 0..MaxStored}
    /\ CONNS = {}
    /\ SESSIONS = [x \in {} |-> Unauthed]
    /\ alive = [x \in {} |-> FALSE]
    /\ pc = [x \in {} |-> "recv"]
    /\ ret = [x \in {} |-> "recv"]
    /\ stack = [x \in {} |-> <<>>]
    /\ running = 0
    /\ naccepted = 0
    /\ budget = MaxEventsH
    /\ evicted = {}
    /\ last = Quiet("init", 0)

NextH ==
    \E c \in 1..MaxEventsH :
        \/ Accept(c)
        \/ RecvLogin(c, CoreLoginFrames)
        \/ LoginHistory(c)
        \/ LoginPresence(c)
        \/ RecvSend(c, CoreSendFrames)
        \/ BroadcastSend(c)
        \/ BroadcastReturn(c)

SpecH == InitH /\ [][NextH]_vars

\* SpecS: clients that act one after the other, each event (a connection,
\* a frame, a close) arriving after the server has finished with the one
\* before, on a Store with the users alice and bob and no messages
ScenarioUsers == << InitUser(1, s_alice, FALSE, TRUE), InitUser(2, s_bob, FALSE, TRUE) >>

ScenarioLogins == { Login(PyStr(s_alice), PyStr(s_pw)), Login(PyStr(s_bob), PyStr(s_pw)) }

ScenarioSends == { Send(PyStr(s_text), PyStr(s_hi), PyNone, PyNone) }

\* every handler waits for a frame of an open connection, or has ended
Quiescent ==
    /\ running = 0
    /\ \A c \in DOMAIN pc : pc[c] = "done" \/ (pc[c] = "recv" /\ alive[c])

InitS ==
    /\ WorkerNew(0)
    /\ users = ScenarioUsers
    /\ messages = <<>>
    /\ CONNS = {}
    /\ SESSIONS = [x \in {} |-> Unauthed]
    /\ alive = [x \in {} |-> FALSE]
    /\ pc = [x \in {} |-> "recv"]
    /\ ret = [x \in {} |-> "recv"]
    /\ stack = [x \in {} |-> <<>>]
    /\ running = 0
    /\ naccepted = 0
    /\ budget = MaxEventsS
    /\ evicted = {}
    /\ last = Quiet("init", 0)

ClientEvent(c) ==
    /\ Quiescent
    /\ \/ Accept(c)
       \/ Close(c)
       \/ RecvLogin(c, ScenarioLogins)
       \/ RecvSend(c, ScenarioSends)

NextS ==
    \E c \in 1..MaxEventsS :
        \/ ClientEvent(c)
        \/ EndOfStream(c)
        \/ LoginHistory(c)
        \/ LoginPresence(c)
        \/ Finally(c)
        \/ BroadcastSend(c)
        \/ BroadcastReturn(c)

SpecS == InitS /\ [][NextS]_vars

\* SpecC: two users are logged in on two connections (the state of Spec
\* after accept, login as alice, accept, login as Bob) and send messages
\* concurrently
InitC ==
    /\ WorkerNew(0)
    /\ users = InitUsers
    /\ messages = <<>>
    /\ CONNS = {1, 2}
    /\ SESSIONS = <<AuthedSession(InitUsers[2]), AuthedSession(InitUsers[3])>>
    /\ alive = <<TRUE, TRUE>>
    /\ pc = <<"recv", "recv">>
    /\ ret = <<"recv", "recv">>
    /\ stack = << <<>>, <<>> >>
    /\ running = 0
    /\ naccepted = 2
    /\ budget = MaxEventsC
    /\ evicted = {}
    /\ last = Quiet("return", 2)

NextC ==
    \E c \in {1, 2} :
        \/ RecvSend(c, CoreSendFrames)
        \/ BroadcastSend(c)
        \/ BroadcastReturn(c)

SpecC == InitC /\ [][NextC]_vars

\* SpecB: MaxConnsB connections are open and have not logged in (the state
\* of Spec after that many accepts); up to MaxClosesB of them close, at
\* any moment, and the event loop resumes every task that can go on
InitB ==
    /\ WorkerNew(0)
    /\ users = InitUsers
    /\ messages = <<>>
    /\ CONNS = 1..MaxConnsB
    /\ SESSIONS = [x \in 1..MaxConnsB |-> Unauthed]
    /\ alive = [x \in 1..MaxConnsB |-> TRUE]
    /\ pc = [x \in 1..MaxConnsB |-> "recv"]
    /\ ret = [x \in 1..MaxConnsB |-> "recv"]
    /\ stack = [x \in 1..MaxConnsB |-> <<>>]
    /\ running = 0
    /\ naccepted = MaxConnsB
    /\ budget = MaxClosesB
    /\ evicted = {}
    /\ last = Quiet("accept", MaxConnsB)

TasksB(c) ==
    \/ EndOfStream(c)
    \/ Finally(c)
    \/ BroadcastSend(c)
    \/ BroadcastCleanup(c)
    \/ BroadcastReturn(c)

NextB ==
    \E c \in 1..MaxConnsB :
        \/ Close(c)
        \/ TasksB(c)

SpecB == InitB /\ [][NextB]_vars /\ \A c \in 1..MaxConnsB : WF_vars(TasksB(c))

(***************************************************************************)
(* The client's worker thread (src/ws_worker.py).  WsWorker runs _main on  *)
(* an event loop of its own, in a thread of its own; the GUI thread calls  *)
(* start(), submit() and stop().  The server is seen from the worker's end *)
(* of the connection: it answers the login frame, it may push further      *)
(* frames, and the connection may close, cleanly or with an error.         *)
(***************************************************************************)
serverside == <<users, messages, CONNS, SESSIONS, alive, pc, ret, stack, running,
                naccepted, budget, evicted, last>>

Signal(name, arg) == [name |-> name, arg |-> arg]

emit(sigs, name, arg) == Append(sigs, Signal(name, arg))

CmdQueue(q) == [t |-> "queue", v |-> q]

\* lines 35 and 42: `self.loop and self.cmd_q and not self.loop.is_closed()`
CanSubmit == worker.loop = "running" /\ worker.cmd_q.t = "queue"

\* lines 37 and 44: call_soon_threadsafe(self.cmd_q.put_nowait, cmd), if at
\* all: the put is handed to the worker's loop, which runs it later
call_soon_threadsafe(cmd) ==
    IF CanSubmit THEN Append(worker.ready, cmd) ELSE worker.ready

\* the frames the server sends to a connection besides the login answer
PushedFrames ==
    {"history", "presence", "message", "error",
     "admin_create_user_ok", "admin_create_user_error"}

LoginAnswers == {"login_ok", "login_error"}

\* leaving `async with websockets.connect(...) as ws` closes the connection
ExitWith(w) == IF w = "open" THEN "closed_ok" ELSE w

\* QThread.start(): the thread begins run(), lines 48-49
WorkerStart ==
    /\ worker.pc = "new"
    /\ worker' = [worker EXCEPT !.pc = "run"]
    /\ UNCHANGED serverside

\* line 52
main_loop ==
    /\ worker.pc = "run"
    /\ worker' = [worker EXCEPT !.loop = "running", !.pc = "loop"]
    /\ UNCHANGED serverside

\* line 53
main_cmd_q ==
    /\ worker.pc = "loop"
    /\ worker' = [worker EXCEPT !.cmd_q = CmdQueue(<<>>), !.pc = "connect"]
    /\ UNCHANGED serverside

\* lines 41-46, called by the GUI thread on a started worker
stop ==
    /\ worker.pc # "new"
    /\ ~worker.stop_called
    /\ worker' = [worker EXCEPT !.stop_called = TRUE, !.ready = call_soon_threadsafe("_stop")]
    /\ UNCHANGED serverside

\* lines 34-39, called by the GUI thread on a started worker
submit ==
    /\ worker.pc # "new"
    /\ worker.budget > 0
    /\ worker' = [worker EXCEPT !.budget = @ - 1, !.ready = call_soon_threadsafe("send")]
    /\ UNCHANGED serverside

\* lines 37 and 44, in the worker's thread: the loop runs the oldest callback
\* handed to it, cmd_q.put_nowait(cmd)
put_nowait ==
    /\ worker.loop = "running"
    /\ worker.ready # <<>>
    /\ worker' = [worker EXCEPT !.cmd_q = CmdQueue(Append(@.v, Head(worker.ready))),
                                !.ready = Tail(@)]
    /\ UNCHANGED serverside

\* lines 58-59: the connection is made
connect_ok ==
    /\ worker.pc = "connect"
    /\ worker' = [worker EXCEPT !.ws = "open",
                                !.signals = emit(@, "connected", ""),
                                !.pc = "login"]
    /\ UNCHANGED serverside

\* lines 58, 126-127: websockets.connect raises
connect_failed ==
    /\ worker.pc = "connect"
    /\ worker' = [worker EXCEPT !.signals = emit(@, "login_error", "Connection failed"),
                                !.pc = "finally"]
    /\ UNCHANGED serverside

\* lines 61-65, and 126-127 when the send raises
send_login ==
    /\ worker.pc = "login"
    /\ worker' = IF worker.ws = "open"
                 THEN [worker EXCEPT !.pc = "first"]
                 ELSE [worker EXCEPT !.signals = emit(@, "login_error", "Connection failed"),
                                     !.ws = ExitWith(@),
                                     !.pc = "finally"]
    /\ UNCHANGED serverside

\* the first frame read at line 67 and what lines 68-83 do with it
first_frame(t) ==
    CASE t = "junk" -> [sig |-> Signal("login_error", "Bad server response"), ok |-> FALSE]
      [] t = "login_error" -> [sig |-> Signal("login_error", "Invalid credentials or inactive user"), ok |-> FALSE]
      [] t = "login_ok" -> [sig |-> Signal("login_ok", ""), ok |-> TRUE]
      [] OTHER -> [sig |-> Signal("login_error", "Unexpected server response"), ok |-> FALSE]

\* lines 67-83 and 120-121, and 126-127 when recv raises
recv_first ==
    /\ worker.pc = "first"
    /\ IF worker.inbox # <<>>
       THEN LET r == first_frame(Head(worker.inbox)) IN
            worker' = IF r.ok
                      THEN [worker EXCEPT !.inbox = Tail(@),
                                          !.signals = Append(@, r.sig),
                                          !.recv_task = "run",
                                          !.send_task = "run",
                                          !.pc = "wait"]
                      ELSE [worker EXCEPT !.inbox = Tail(@),
                                          !.signals = Append(@, r.sig),
                                          !.ws = ExitWith(@),
                                          !.pc = "finally"]
       ELSE /\ worker.ws \in {"closed_ok", "closed_error"}
            /\ worker' = [worker EXCEPT !.signals = emit(@, "login_error", "Connection failed"),
                                        !.pc = "finally"]
    /\ UNCHANGED serverside

\* lines 93-105: the signal receiver emits for a frame, if any
received(t) ==
    CASE t = "message" -> <<Signal("message_received", "")>>
      [] t = "history" -> <<Signal("history_received", "")>>
      [] t = "presence" -> <<Signal("presence_received", "")>>
      [] t = "admin_create_user_ok" -> <<Signal("admin_create_user_ok", "")>>
      [] t = "admin_create_user_error" -> <<Signal("admin_create_user_error", "")>>
      [] t = "error" -> <<Signal("error", "")>>
      [] OTHER -> <<>>

\* lines 85-107: one turn of receiver()
receiver ==
    /\ worker.recv_task = "run"
    /\ worker.pc = "wait"
    /\ IF worker.inbox # <<>>
       THEN worker' = [worker EXCEPT !.inbox = Tail(@),
                                     !.signals = @ \o received(Head(worker.inbox))]
       ELSE /\ worker.ws \in {"closed_ok", "closed_error"}
            /\ worker' = [worker EXCEPT
                            !.recv_task = "done",
                            !.signals = IF worker.ws = "closed_error"
                                        THEN emit(@, "disconnected", "ConnectionClosedError")
                                        ELSE @]
    /\ UNCHANGED serverside

\* lines 109-113: sender() takes the next command; a command other than
\* _stop goes to ws.send, line 115, where sender() waits
sender_get ==
    /\ worker.send_task = "run"
    /\ worker.pc = "wait"
    /\ worker.cmd_q.v # <<>>
    /\ worker' = [worker EXCEPT !.cmd_q = CmdQueue(Tail(@.v)),
                                !.send_task = IF Head(worker.cmd_q.v) = "_stop"
                                              THEN "done" ELSE "sending"]
    /\ UNCHANGED serverside

\* lines 115-118: ws.send returns, or raises on a connection that has ended
sender_send ==
    /\ worker.send_task = "sending"
    /\ worker.pc = "wait"
    /\ worker' = IF worker.ws = "open"
                 THEN [worker EXCEPT !.send_task = "run"]
                 ELSE [worker EXCEPT !.signals = emit(@, "disconnected", "ConnectionClosed"),
                                     !.send_task = "done"]
    /\ UNCHANGED serverside

cancel(task) == IF task \in {"run", "sending"} THEN "cancelled" ELSE task

\* lines 122-124, and the exit of `async with`
wait_first_completed ==
    /\ worker.pc = "wait"
    /\ "done" \in {worker.recv_task, worker.send_task}
    /\ worker' = [worker EXCEPT !.recv_task = cancel(@),
                                !.send_task = cancel(@),
                                !.ws = ExitWith(@),
                                !.pc = "finally"]
    /\ UNCHANGED serverside

\* lines 128-129
main_finally ==
    /\ worker.pc = "finally"
    /\ worker' = [worker EXCEPT !.signals = emit(@, "disconnected", "Disconnected"),
                                !.pc = "shutdown"]
    /\ UNCHANGED serverside

\* line 49: asyncio.run closes the loop, dropping the callbacks it has not
\* run, and run() returns
run_returns ==
    /\ worker.pc = "shutdown"
    /\ worker' = [worker EXCEPT !.loop = "closed", !.ready = <<>>, !.pc = "ended"]
    /\ UNCHANGED serverside

\* src/server.py lines 88 and 98-102: the server answers the login frame
ServerReply ==
    /\ worker.pc = "first"
    /\ worker.ws = "open"
    /\ \A i \in 1..Len(worker.inbox) : worker.inbox[i] \notin LoginAnswers
    /\ \E t \in LoginAnswers : worker' = [worker EXCEPT !.inbox = Append(@, t)]
    /\ UNCHANGED serverside

\* src/server.py lines 42-44: a broadcast reaches the connection
ServerPush ==
    /\ worker.ws = "open"
    /\ worker.budget > 0
    /\ \E t \in PushedFrames :
         worker' = [worker EXCEPT !.budget = @ - 1, !.inbox = Append(@, t)]
    /\ UNCHANGED serverside

\* the connection ends: the server closes it, or it breaks
ServerClose ==
    /\ worker.ws = "open"
    /\ \E how \in {"closed_ok", "closed_error"} : worker' = [worker EXCEPT !.ws = how]
    /\ UNCHANGED serverside

\* the steps the worker thread takes by itself
WorkerThread ==
    \/ main_loop
    \/ main_cmd_q
    \/ put_nowait
    \/ connect_ok
    \/ connect_failed
    \/ send_login
    \/ recv_first
    \/ receiver
    \/ sender_get
    \/ sender_send
    \/ wait_first_completed
    \/ main_finally
    \/ run_returns

\* SpecW: one WsWorker from its construction on, with up to MaxEventsW
\* commands and pushed frames; the worker thread goes on whenever it can,
\* and the server answers a login frame
InitW == ServerInit(0) /\ WorkerNew(MaxEventsW)

NextW ==
    \/ WorkerStart
    \/ stop
    \/ submit
    \/ WorkerThread
    \/ ServerReply
    \/ ServerPush
    \/ ServerClose

SpecW == InitW /\ [][NextW]_vars /\ WF_vars(WorkerThread) /\ WF_vars(ServerReply)

(***************************************************************************)
(* Properties.                                                             *)
(***************************************************************************)
\* the sessions that are authenticated
Authed(sess) == {w \in DOMAIN sess : sess[w].authed}

\* the frame of the last step is a JSON object of the given type
LastFrameIs(l, type) ==
    /\ l.op = "frame"
    /\ l.frame.json = "object"
    /\ l.frame.type = type

\* every call of broadcast in progress, in any task
Calls == UNION {Range(stack[c]) : c \in DOMAIN stack}

\* q is sorted by the lower-case keys of its elements
SortedCaseInsensitive(q) ==
    \A i, j \in 1..Len(q) : i < j => ~StrLess(StrLower(q[j]), StrLower(q[i]))

\* C1: in every reachable state, every list online_usernames() may return
\* holds exactly the usernames of the authenticated sessions, each once, in
\* case-insensitive order.
C1_OnlineUsernames ==
    \A r \in online_usernames(SESSIONS) :
        /\ Range(r) = {SESSIONS[w].username : w \in Authed(SESSIONS)}
        /\ \A i, j \in 1..Len(r) : r[i] = r[j] => i = j
        /\ SortedCaseInsensitive(r)

\* C1 witness: one user logged in on two connections, or two users whose
\* case-insensitive order is not the order of their character codes
C1_Witness ==
    \/ \E w1, w2 \in Authed(SESSIONS) :
         /\ w1 # w2
         /\ SESSIONS[w1].username = SESSIONS[w2].username
         /\ online_usernames(SESSIONS) = {<<SESSIONS[w1].username>>}
    \/ \E w1, w2 \in Authed(SESSIONS) :
         /\ StrLess(SESSIONS[w1].username, SESSIONS[w2].username)
         /\ online_usernames(SESSIONS) = {<<SESSIONS[w2].username, SESSIONS[w1].username>>}

\* C2 (as claimed): a send frame on an authenticated session either stores
\* the message and starts one message broadcast to CONNS with no error to the
\* sender, or sends one error to the sender and stores and broadcasts nothing.
C2_SendOneOutcome ==
    (LastFrameIs(last, "send") /\ last.authed) =>
        \/ /\ last.stored
           /\ last.bcast.type = "message"
           /\ last.to = 0
        \/ /\ ~last.stored
           /\ last.bcast.type = "none"
           /\ last.to = last.c
           /\ last.ev.type = "error"

\* C3: a frame that is a JSON object with a type other than login, read while
\* the session of its connection is unauthenticated, makes the handler send
\* the error 'Please login first' to that connection and nothing else: no
\* change of the registry or the Store, no broadcast started.
C3_UnauthedRejected ==
    [][ ( /\ last'.op = "frame"
          /\ last'.frame.json = "object"
          /\ last'.frame.type # "login"
          /\ last'.c \in DOMAIN SESSIONS
          /\ ~SESSIONS[last'.c].authed )
        => ( /\ last'.to = last'.c
             /\ last'.ev = EvError(<<"Please login first">>)
             /\ last'.bcast = NoEv
             /\ ~last'.stored
             /\ UNCHANGED <<users, messages, CONNS, SESSIONS, stack>> ) ]_vars

\* C3 witness: a send frame on an unauthenticated session was answered
C3_Witness ==
    /\ LastFrameIs(last, "send")
    /\ ~last.authed
    /\ last.ok
    /\ last.c \in DOMAIN SESSIONS
    /\ ~SESSIONS[last.c].authed

\* C4: every session is either {authed: False} alone or authed with user_id,
\* username and is_admin all set, in every state (so also in every state in
\* which another task can run).
C4_SessionWhole ==
    \A c \in DOMAIN SESSIONS :
        \/ /\ DOMAIN SESSIONS[c] = {"authed"}
           /\ SESSIONS[c].authed = FALSE
        \/ /\ DOMAIN SESSIONS[c] = {"authed", "user_id", "username", "is_admin"}
           /\ SESSIONS[c].authed = TRUE
           /\ SESSIONS[c].user_id \in 1..Len(users)
           /\ SESSIONS[c].username # <<>>
           /\ SESSIONS[c].is_admin \in BOOLEAN

\* C4 witness: an authenticated and an unauthenticated session side by side,
\* observable by every task
C4_Witness ==
    /\ running = 0
    /\ \E c1, c2 \in DOMAIN SESSIONS : SESSIONS[c1].authed /\ ~SESSIONS[c2].authed

\* C5 (as claimed): once a session is authenticated, no step changes it for
\* as long as it stays in the registry.
C5_AuthenticatedOnce ==
    [][ \A c \in DOMAIN SESSIONS :
          (SESSIONS[c].authed /\ c \in DOMAIN SESSIONS') => SESSIONS'[c] = SESSIONS[c] ]_vars

\* the row of the Store a login frame f names, if the Store accepts f: the
\* username exists, the account is active and the password verifies
Accepts(utab, f, u) ==
    /\ f.username.t = "str"
    /\ u.username = Strip(f.username.v)
    /\ u.is_active
    /\ f.password.t = "str"
    /\ u.password_hash.dk = Pbkdf2(f.password.v, u.password_hash.salt, u.password_hash.iters)

\* C6: a step that leaves a session authenticated which was not there, was
\* unauthenticated or was different before is the processing of a login frame
\* on that connection which names an active user of the Store with the right
\* password, and the session then holds that user's id, username and is_admin.
C6_AuthenticatedByLogin ==
    [][ \A c \in DOMAIN SESSIONS' :
          ( /\ SESSIONS'[c].authed
            /\ (c \notin DOMAIN SESSIONS \/ SESSIONS[c] # SESSIONS'[c]) )
          => /\ LastFrameIs(last', "login")
             /\ last'.c = c
             /\ \E i \in 1..Len(users) :
                  /\ Accepts(users, last'.frame, users[i])
                  /\ SESSIONS'[c] = [authed |-> TRUE, user_id |-> users[i].id,
                                     username |-> users[i].username,
                                     is_admin |-> users[i].is_admin] ]_vars

\* C6 witness: a login with surrounding spaces in the username authenticated
\* an unauthenticated session
C6_Witness ==
    /\ LastFrameIs(last, "login")
    /\ ~last.authed
    /\ last.frame.username = PyStr(s_alice_sp)
    /\ last.c \in DOMAIN SESSIONS
    /\ SESSIONS[last.c].authed
    /\ SESSIONS[last.c].username = s_alice

\* C7: a login frame on an unauthenticated session that names no active user
\* with that password makes the handler send one login_error to that
\* connection and nothing else; registry and Store stay as they are, no
\* broadcast starts, and the handler of an open connection waits for the next
\* frame.
C7_LoginRejected ==
    [][ ( /\ LastFrameIs(last', "login")
          /\ last'.c \in DOMAIN SESSIONS
          /\ ~SESSIONS[last'.c].authed
          /\ last'.frame.username.t \in {"str", "none"}
          /\ ~\E i \in 1..Len(users) : Accepts(users, last'.frame, users[i]) )
        => ( /\ last'.to = last'.c
             /\ last'.ev = EvLoginError
             /\ last'.bcast = NoEv
             /\ UNCHANGED <<users, messages, CONNS, SESSIONS, stack, alive>>
             /\ pc'[last'.c] = IF alive[last'.c] THEN "recv" ELSE "finally" ) ]_vars

\* C7 witness: the login of a deactivated account was rejected on an open
\* connection, which is still unauthenticated and waits for the next frame
C7_Witness ==
    /\ LastFrameIs(last, "login")
    /\ last.frame.username = PyStr(s_eve)
    /\ last.ev = EvLoginError
    /\ last.ok
    /\ last.c \in DOMAIN SESSIONS
    /\ ~SESSIONS[last.c].authed
    /\ pc[last.c] = "recv"

\* C8: an admin_create_user frame on an authenticated session whose is_admin
\* is false makes the handler send admin_create_user_error 'Admin only' to
\* that connection and nothing else, and leaves the table users unchanged.
C8_AdminOnly ==
    [][ ( /\ LastFrameIs(last', "admin_create_user")
          /\ last'.c \in DOMAIN SESSIONS
          /\ SESSIONS[last'.c].authed
          /\ ~SESSIONS[last'.c].is_admin )
        => ( /\ last'.to = last'.c
             /\ last'.ev = EvAdminError(<<"Admin only">>)
             /\ last'.bcast = NoEv
             /\ users' = users ) ]_vars

\* C8 witness: a non-admin asked for a user that create_user would accept
C8_Witness ==
    /\ LastFrameIs(last, "admin_create_user")
    /\ last.frame = AdminCreate(PyStr(s_zed), PyStr(s_pw), PyNone)
    /\ last.c \in DOMAIN SESSIONS
    /\ SESSIONS[last.c].authed
    /\ ~SESSIONS[last.c].is_admin
    /\ last.ok

\* C9: in every call of broadcast, each connection of the snapshot list(CONNS)
\* is in exactly one of: still to be sent to, sent to successfully, failed;
\* no connection is attempted twice, and the removal of the failed ones starts
\* only when every connection of the snapshot has been attempted.
C9_BroadcastIndependent ==
    /\ \A call \in Calls :
         /\ call.todo \cup call.sent \cup Range(call.dead) = call.snap
         /\ call.todo \cap call.sent = {}
         /\ call.todo \cap Range(call.dead) = {}
         /\ call.sent \cap Range(call.dead) = {}
         /\ \A i, j \in 1..Len(call.dead) : call.dead[i] = call.dead[j] => i = j
         /\ call.cleaned > 0 => call.todo = {}
    /\ \A c \in DOMAIN stack : \A i \in 1..Len(stack[c]) - 1 : stack[c][i].todo = {}

\* C9 witness: a send succeeded in a broadcast in which an earlier send had
\* failed
C9_Witness ==
    /\ last.op = "send"
    /\ last.ok
    /\ stack[last.c] # <<>>
    /\ Top(last.c).dead # <<>>
    /\ last.to \in Top(last.c).sent

\* C10 (as claimed): no send is attempted to a connection that a broadcast
\* has removed after a failed send.
C10_NoSendAfterEviction ==
    last.to # 0 => last.to \notin evicted

\* w is in the list dead of a broadcast in progress: a send to it has failed
InDead(w) == \E call \in Calls : w \in Range(call.dead)

\* w is in neither CONNS nor SESSIONS
Removed(w) == w \notin CONNS /\ w \notin DOMAIN SESSIONS

\* C11: in every broadcast each connection of the snapshot is attempted once
\* and ends up sent to or in dead (nobody is dropped silently), and a
\* connection that is in dead is eventually removed from CONNS and SESSIONS.
C11_AllOrEvicted ==
    /\ [](\A call \in Calls :
            /\ call.todo \cup call.sent \cup Range(call.dead) = call.snap
            /\ call.sent \cap Range(call.dead) = {})
    /\ \A w \in 1..MaxEventsF : InDead(w) ~> Removed(w)

\* C11 witness: a broadcast has sent to one connection and has removed
\* another, to which the send had failed
C11_Witness ==
    \E call \in Calls :
        /\ call.todo = {}
        /\ call.sent # {}
        /\ call.cleaned > 0
        /\ Removed(call.dead[call.cleaned])

\* the connection of c is closed, or its handler has left the frame loop
Closed(c) == c \in DOMAIN alive /\ (~alive[c] \/ pc[c] = "finally")

\* the handler of c has ended and c is in neither CONNS nor SESSIONS
Gone(c) == c \in DOMAIN pc /\ pc[c] = "done" /\ Removed(c)

\* C12: a connection that is closed, or whose handler left the frame loop on
\* an exception, eventually has its handler ended and is out of CONNS and
\* SESSIONS; once the finally clause has run it is never in them again; and
\* the finally clause starts a broadcast, to the connections that remain, of a
\* presence event computed from the sessions that remain.
C12_CloseCleansUp ==
    /\ \A c \in 1..MaxEventsF : Closed(c) ~> Gone(c)
    /\ [](\A c \in DOMAIN ret : ret[c] = "done" => Removed(c))
    /\ [][ \A c \in DOMAIN pc :
             (pc[c] = "finally" /\ pc'[c] # "finally")
             => /\ ret'[c] = "done"
                /\ c \notin CONNS' /\ c \notin DOMAIN SESSIONS'
                /\ last'.bcast \in {EvPresence(o) : o \in online_usernames(SESSIONS')}
                /\ stack'[c][Len(stack'[c])] = BroadcastCall(last'.bcast, CONNS') ]_vars

\* C12 witness: the finally clause of a handler has removed its connection,
\* and the presence event of that removal was sent to another connection
C12_Witness ==
    /\ last.op = "send"
    /\ last.ok
    /\ last.ev = EvPresence(<<>>)
    /\ ret[last.c] = "done"
    /\ Removed(last.c)
    /\ last.to # last.c

\* C13: login_ok is sent to the logging-in connection alone by the step that
\* accepts the login; the next step of that handler sends history to that
\* connection alone; the step after it starts the broadcast of a presence
\* event computed then, to all of CONNS; a failed send ends the sequence, and
\* login_ok and history are sent nowhere else.
C13_LoginSequence ==
    [][ /\ last'.ev.type = "login_ok"
           => /\ LastFrameIs(last', "login")
              /\ last'.to = last'.c
              /\ last'.bcast = NoEv
              /\ pc'[last'.c] = IF alive[last'.c] THEN "login_hist" ELSE "finally"
        /\ last'.ev.type = "history" => pc[last'.c] = "login_hist"
        /\ \A c \in DOMAIN pc :
             /\ (pc[c] = "login_hist" /\ pc'[c] # "login_hist")
                => /\ last'.c = c
                   /\ last'.to = c
                   /\ last'.ev = EvHistory(fetch_history(messages, users, HistoryLimit))
                   /\ last'.bcast = NoEv
                   /\ pc'[c] = IF alive[c] THEN "login_presence" ELSE "finally"
             /\ (pc[c] = "login_presence" /\ pc'[c] # "login_presence")
                => /\ last'.c = c
                   /\ last'.to = 0
                   /\ last'.bcast \in {EvPresence(o) : o \in online_usernames(SESSIONS)}
                   /\ pc'[c] = "broadcast"
                   /\ stack'[c] = <<BroadcastCall(last'.bcast, CONNS)>> ]_vars

\* C13 witness: the presence event of a login reaches the connection that
\* logged in, while another connection is registered
C13_Witness ==
    /\ last.op = "send"
    /\ last.ok
    /\ last.to = last.c
    /\ last.ev.type = "presence"
    /\ ret[last.c] = "recv"
    /\ Len(stack[last.c]) = 1
    /\ Cardinality(Top(last.c).snap) > 1
    /\ last.c \in DOMAIN SESSIONS
    /\ SESSIONS[last.c].username \in Range(last.ev.online)

\* C14 (as claimed): no message event is delivered to a connection between
\* its login_ok and its history event.
C14_HistoryBeforeMessages ==
    (last.op = "send" /\ last.ok /\ last.ev.type = "message")
        => pc[last.to] # "login_hist"

\* the connection the last step removed by cleanup_ws, when last.op = "cleanup":
\* the handler's own in its finally clause, else the entry of dead that the
\* broadcast below the new one has just passed to cleanup_ws
CleanedUp ==
    LET st == stack[last.c]
    IN IF Len(st) = 1 THEN last.c
       ELSE st[Len(st) - 1].dead[st[Len(st) - 1].cleaned]

\* C15 (as claimed): the presence event broadcast at the end of a login lists
\* the username of the session that logged in, and the presence event
\* broadcast by a removal is computed from the sessions left after it.
C15_PresenceIncludesLogin ==
    /\ last.op = "presence"
       => /\ last.bcast.online # <<>>
          /\ last.c \in DOMAIN SESSIONS
          /\ SESSIONS[last.c].username \in Range(last.bcast.online)
    /\ last.op = "cleanup" => last.bcast \in {EvPresence(o) : o \in online_usernames(SESSIONS)}

\* C15 (amended): the presence event broadcast at the end of a login or by a
\* removal is computed from the sessions as they are when the broadcast
\* starts, after the mutation: it lists the username of the login if that
\* session is still registered then, and no removed session contributes.
C15_PresenceFromCurrentRegistry ==
    /\ last.op \in {"presence", "cleanup"}
       => last.bcast \in {EvPresence(o) : o \in online_usernames(SESSIONS)}
    /\ (last.op = "presence" /\ last.c \in DOMAIN SESSIONS)
       => /\ SESSIONS[last.c].authed
          /\ SESSIONS[last.c].username \in Range(last.bcast.online)
    /\ last.op = "cleanup"
       => /\ CleanedUp \notin DOMAIN SESSIONS
          /\ \A i \in 1..Len(last.bcast.online) :
               \E w \in Authed(SESSIONS) : SESSIONS[w].username = last.bcast.online[i]

\* C15 witness: a removal starts the broadcast of a presence event that still
\* lists a user, or a login that of a presence event listing two users
C15_Witness ==
    \/ /\ last.op = "cleanup"
       /\ last.bcast.online # <<>>
       /\ CleanedUp \in evicted
    \/ /\ last.op = "presence"
       /\ Len(last.bcast.online) = 2
       /\ last.c \in DOMAIN SESSIONS

\* the frame types handler has a branch for
KnownTypes == {"login", "send", "who_online", "admin_create_user", "join", "history_room"}

\* l records a frame that is a protocol error: not JSON, JSON that is not an
\* object, or an object of unknown type on an authenticated session
ProtocolError(l) ==
    /\ l.op = "frame"
    /\ \/ l.frame.json \in {"invalid", "value"}
       \/ /\ l.frame.json = "object"
          /\ l.authed
          /\ l.frame.type \notin KnownTypes

\* C16 (as claimed): a frame that is a protocol error is answered with one
\* error event to its connection, changes neither the registry nor the Store,
\* starts no broadcast, and the handler goes back to reading frames.
C16_ProtocolErrorAnswered ==
    [][ ProtocolError(last')
        => /\ last'.to = last'.c
           /\ last'.ev.type = "error"
           /\ last'.bcast = NoEv
           /\ UNCHANGED <<users, messages, CONNS, SESSIONS>>
           /\ alive[last'.c] => pc'[last'.c] = "recv" ]_vars

\* l records a join or history_room frame
RoomFrame(l) ==
    /\ l.op = "frame"
    /\ l.frame.json = "object"
    /\ l.frame.type \in {"join", "history_room"}

\* C17 (as claimed): a join or history_room frame is answered with the error
\* 'Rooms are disabled. Single chat only.' in any session state, and has no
\* other effect.
C17_RoomsRejectedAlways ==
    [][ RoomFrame(last')
        => /\ last'.to = last'.c
           /\ last'.ev = EvError(<<"Rooms are disabled. Single chat only.">>)
           /\ last'.bcast = NoEv
           /\ UNCHANGED <<users, messages, CONNS, SESSIONS, stack>> ]_vars

\* C17 (amended): a join or history_room frame is answered with one error to
\* its connection and has no other effect; the error is 'Rooms are disabled.
\* Single chat only.' on an authenticated session and 'Please login first'
\* otherwise.
C17_RoomsRejected ==
    [][ RoomFrame(last')
        => /\ last'.to = last'.c
           /\ last'.ev =
                IF last'.c \in DOMAIN SESSIONS /\ SESSIONS[last'.c].authed
                THEN EvError(<<"Rooms are disabled. Single chat only.">>)
                ELSE EvError(<<"Please login first">>)
           /\ last'.bcast = NoEv
           /\ ~last'.stored
           /\ UNCHANGED <<users, messages, CONNS, SESSIONS, stack>>
           /\ pc'[last'.c] = IF alive[last'.c] THEN "recv" ELSE "finally" ]_vars

\* C17 witness: a history_room frame on an authenticated session was answered
C17_Witness ==
    /\ RoomFrame(last)
    /\ last.frame.type = "history_room"
    /\ last.ok
    /\ last.c \in DOMAIN SESSIONS
    /\ SESSIONS[last.c].authed
    /\ last.ev = EvError(<<"Rooms are disabled. Single chat only.">>)

\* l records a send frame on an authenticated session
SendFrame(l) == LastFrameIs(l, "send") /\ l.authed

\* C18 (as claimed): a send frame on an authenticated session whose kind is a
\* string other than text and sticker (even after trimming and lower-casing)
\* is answered with an error, and nothing is stored or broadcast.
C18_UnknownKindRejected ==
    ( /\ SendFrame(last)
      /\ last.frame.kind.t = "str"
      /\ StrLower(Strip(last.frame.kind.v)) \notin {s_text, s_sticker, s_empty} )
    => /\ last.to = last.c
       /\ last.ev.type = "error"
       /\ ~last.stored
       /\ last.bcast = NoEv

\* the shape the claim gives a message row or a message event
WellFormedMessage(m) ==
    /\ m.kind \in {s_text, s_sticker}
    /\ m.kind = s_text
       => /\ m.content # s_empty
          /\ Len(m.content) <= MaxContentLen
          /\ m.sticker = PyNone
    /\ m.kind = s_sticker
       => /\ m.sticker.t = "str"
          /\ m.sticker.v # s_empty
          /\ m.content = s_empty

\* C19 (as claimed): every stored message and every message event that is
\* broadcast has kind text with a non-empty content of at most 2000
\* characters and no sticker, or kind sticker with a non-empty sticker and
\* empty content.
C19_MessagesWellFormed ==
    /\ \A i \in 1..Len(messages) : WellFormedMessage(messages[i])
    /\ \A call \in Calls : call.ev.type = "message" => WellFormedMessage(call.ev.message)

\* C20: the history event of a login holds the min(80, n) most recent of the
\* n messages in the Store when it is fetched, oldest first with ascending
\* ids, each with the fields of its row and the username of its author.
C20_HistoryLastEighty ==
    (last.op = "history")
    => LET h == last.ev.messages
           n == Len(messages)
       IN /\ last.ev.type = "history"
          /\ last.to = last.c
          /\ Len(h) = Min(HistoryLimit, n)
          /\ \A i \in 1..Len(h) :
               LET m == messages[n - Len(h) + i]
               IN /\ h[i].id = n - Len(h) + i
                  /\ h[i].id = m.id
                  /\ h[i].user_id = m.user_id
                  /\ h[i].kind = m.kind
                  /\ h[i].content = m.content
                  /\ h[i].sticker = m.sticker
                  /\ h[i].reply_to = m.reply_to
                  /\ \E k \in 1..Len(users) :
                       users[k].id = m.user_id /\ users[k].username = h[i].username

\* C20 witness: a login on a Store of more than 80 messages was sent a
\* history of 80, which leaves out the oldest messages
C20_Witness ==
    /\ last.op = "history"
    /\ last.ok
    /\ Len(messages) > HistoryLimit + 1
    /\ Len(last.ev.messages) = HistoryLimit
    /\ last.ev.messages[1].id > 2
    /\ last.ev.messages[HistoryLimit].id = Len(messages)

\* C21 (as claimed): a message event being broadcast and the entry of the
\* same id in the history a login is sent agree on kind, content, sticker
\* and reply_to.
C21_BroadcastHistoryRoundTrip ==
    \A call \in Calls :
        call.ev.type = "message"
        => LET h == fetch_history(messages, users, HistoryLimit)
               m == call.ev.message
           IN \A i \in 1..Len(h) :
                h[i].id = m.id
                => /\ h[i].kind = m.kind
                   /\ h[i].content = m.content
                   /\ h[i].sticker = m.sticker
                   /\ h[i].reply_to = m.reply_to

\* C22: when a send frame has been accepted and its message stored, the
\* broadcast it starts is of that message event and the sending connection is
\* in its list of recipients, none of which has been passed over.
C22_SenderIsRecipient ==
    (SendFrame(last) /\ last.stored)
    => /\ stack[last.c] = <<BroadcastCall(last.bcast, CONNS)>>
       /\ last.bcast.type = "message"
       /\ last.c \in Top(last.c).todo

\* C22 witness: a send was stored while a second connection is registered
C22_Witness ==
    /\ SendFrame(last)
    /\ last.stored
    /\ last.c \in Top(last.c).snap
    /\ Cardinality(Top(last.c).snap) = 2

\* l records an admin_create_user frame on the session of an administrator,
\* with a username the handler can trim
AdminCreateFrame(l, sess) ==
    /\ LastFrameIs(l, "admin_create_user")
    /\ l.c \in DOMAIN sess
    /\ sess[l.c].authed
    /\ sess[l.c].is_admin
    /\ (l.frame.username.t = "str" \/ ~Truthy(l.frame.username))

\* the message with which the Store rejects the new account of frame f, as
\* its pieces of text; none if it accepts it
StoreRejection(utab, f) ==
    LET u == Strip(PyOr(f.username, PyStr(s_empty)).v)
        pw == IF Truthy(f.password) THEN f.password ELSE PyStr(s_empty)
    IN IF Len(u) < MinUsernameLen \/ Len(u) > MaxUsernameLen
          \/ \E i \in 1..Len(u) : IsSpace(u[i])
       THEN <<"Username must be 3..32 chars, no spaces">>
       ELSE IF pw.t # "str" THEN <<NoLen(pw)>>
       ELSE IF Len(pw.v) < MinPasswordLen THEN <<"Password must be at least 4 chars">>
       ELSE IF \E i \in 1..Len(utab) : utab[i].username = u THEN <<"Username already exists">>
       ELSE <<>>

\* C23: no two rows of users ever have the same username, and an
\* admin_create_user frame of an administrator that the Store rejects makes
\* the handler send one admin_create_user_error with the Store's message to
\* that connection, start no broadcast and leave users unchanged.
C23_AdminCreateRejected ==
    /\ [](\A i, j \in 1..Len(users) : users[i].username = users[j].username => i = j)
    /\ [][ (AdminCreateFrame(last', SESSIONS) /\ StoreRejection(users, last'.frame) # <<>>)
           => /\ last'.to = last'.c
              /\ last'.ev = EvAdminError(StoreRejection(users, last'.frame))
              /\ last'.bcast = NoEv
              /\ UNCHANGED <<users, messages, CONNS, SESSIONS, stack>>
              /\ pc'[last'.c] = IF alive[last'.c] THEN "recv" ELSE "finally" ]_vars

\* C23 witness: an administrator asked for a username that exists and was
\* sent the Store's message
C23_Witness ==
    /\ AdminCreateFrame(last, SESSIONS)
    /\ last.frame.username = PyStr(s_alice)
    /\ last.ev = EvAdminError(<<"Username already exists">>)
    /\ last.ok

\* the handler of w is in its frame loop on an open connection
Serving(w) ==
    /\ w \in DOMAIN alive
    /\ alive[w]
    /\ pc[w] \notin {"finally", "done"}
    /\ ret[w] # "done"

\* C24: a connection whose handler is in its frame loop is registered and
\* has a session; and a step taken for one connection (its close, a frame
\* of it that raises, a send to another connection that fails in its
\* broadcast, the cleanup that follows) leaves every other open connection
\* open, with the same session, the same membership of CONNS and its
\* handler where it was.
C24_FailureIsolated ==
    /\ [](\A w \in DOMAIN alive : Serving(w) => w \in CONNS /\ w \in DOMAIN SESSIONS)
    /\ [][ \A w \in DOMAIN alive :
             (alive[w] /\ w # last'.c)
             => /\ alive'[w]
                /\ pc'[w] = pc[w] /\ ret'[w] = ret[w] /\ stack'[w] = stack[w]
                /\ (w \in CONNS) = (w \in CONNS')
                /\ (w \in DOMAIN SESSIONS) = (w \in DOMAIN SESSIONS')
                /\ w \in DOMAIN SESSIONS => SESSIONS'[w] = SESSIONS[w] ]_vars

\* C24 witness: a connection that was closed or whose frame raised has just
\* been unregistered by its own handler while another connection is logged
\* in and waits for its next frame
C24_Witness ==
    /\ last.op = "cleanup"
    /\ ~ Serving(last.c)
    /\ \E w \in DOMAIN alive :
         /\ w # last.c
         /\ Serving(w) /\ pc[w] = "recv"
         /\ w \in CONNS /\ w \in Authed(SESSIONS)

\* the steps in which the handler of a connection continues the processing
\* of a frame, or its clean-up, after an await
Continuations == {"history", "presence", "admin_except", "send", "cleanup", "return"}

\* C25: the handler of a connection reads a frame only while it waits in
\* `async for` with no broadcast of its own under way; every later step of
\* the processing of a frame (history, the presence broadcast, the sends of
\* a broadcast, clean-ups, the return) is taken before the handler is back
\* there; and a handler that waits for a frame has no broadcast under way.
\* So the events a connection is sent for one frame are all sent before its
\* next frame is read.
C25_FramesSequential ==
    /\ [](\A c \in DOMAIN pc : (stack[c] # <<>>) <=> (pc[c] = "broadcast"))
    /\ [][ /\ last'.op = "frame"
              => /\ running = 0
                 /\ pc[last'.c] = "recv"
                 /\ stack[last'.c] = <<>>
           /\ last'.op \in Continuations
              => /\ pc[last'.c] \notin {"recv", "done"}
                 /\ running \in {0, last'.c} ]_vars

\* C25 witness: a connection whose send frame was stored and broadcast has
\* its next frame, who_online, processed
C25_Witness ==
    /\ LastFrameIs(last, "who_online")
    /\ last.ok
    /\ \E i \in 1..Len(messages) : messages[i].user_id = SESSIONS[last.c].user_id

\* C26: a who_online frame on an authenticated session sends one presence
\* event, to the connection of the frame, whose online list is
\* online_usernames() of the current SESSIONS; it starts no broadcast and
\* changes neither SESSIONS nor CONNS nor the Store.
C26_WhoOnline ==
    [][ (LastFrameIs(last', "who_online") /\ last'.authed)
        => /\ last'.to = last'.c
           /\ last'.ev.type = "presence"
           /\ last'.ev.online \in online_usernames(SESSIONS)
           /\ last'.ok = alive[last'.c]
           /\ last'.bcast = NoEv
           /\ UNCHANGED <<users, messages, CONNS, SESSIONS, stack, alive>> ]_vars

\* C26 witness: with two connections registered, the one that is logged in
\* asked who_online and was sent the list
C26_Witness ==
    /\ LastFrameIs(last, "who_online")
    /\ last.authed /\ last.ok
    /\ Len(last.ev.online) = 1
    /\ Cardinality(CONNS) = 2

\* the connection that the next cleanup_ws in the task of c is called for:
\* c itself in the finally of its handler (line 185), else the next
\* connection of dead in its innermost broadcast (lines 47-48)
CleanupTarget(c) ==
    IF pc[c] = "finally" THEN c ELSE Top(c).dead[Top(c).cleaned + 1]

\* C27: cleanup_ws for a connection that is in neither CONNS nor SESSIONS
\* leaves both unchanged and starts no broadcast that has a recipient.
C27_CleanupIdempotent ==
    [][ ( /\ last'.op = "cleanup"
          /\ CleanupTarget(last'.c) \notin CONNS
          /\ CleanupTarget(last'.c) \notin DOMAIN SESSIONS )
        => /\ UNCHANGED <<CONNS, SESSIONS>>
           /\ \/ last'.bcast = NoEv
              \/ stack'[last'.c][Len(stack'[last'.c])].snap = {} ]_vars

\* the sessions of the scenario: connection 1 is A, connection 2 is B
SessionAlice == AuthedSession(ScenarioUsers[1])
SessionBob == AuthedSession(ScenarioUsers[2])

\* the broadcast call that the step into the next state has started
Started(c) == stack'[c][Len(stack'[c])]

\* A is connected alone, nothing is stored
OnlyA ==
    /\ naccepted = 1 /\ CONNS = {1} /\ alive[1]
    /\ messages = <<>>

\* A is logged in as alice, B is connected, nothing is stored
AThenB ==
    /\ naccepted = 2 /\ CONNS = {1, 2} /\ alive[1] /\ alive[2]
    /\ SESSIONS[1] = SessionAlice
    /\ messages = <<>>

\* A is logged in as alice and B as bob
BothLoggedIn ==
    /\ naccepted = 2 /\ CONNS = {1, 2} /\ alive[1] /\ alive[2]
    /\ SESSIONS[1] = SessionAlice /\ SESSIONS[2] = SessionBob

\* B has closed after alice's message was stored
BClosed ==
    /\ naccepted = 2 /\ alive[1] /\ ~alive[2]
    /\ 1 \in CONNS /\ SESSIONS[1] = SessionAlice
    /\ Len(messages) = 1 /\ messages[1].user_id = 1

\* ev is the message event of the scenario
HiEvent(ev) ==
    /\ ev.type = "message"
    /\ ev.message.id = 1
    /\ ev.message.username = s_alice
    /\ ev.message.kind = s_text
    /\ ev.message.content = s_hi
    /\ ev.message.reply_to = PyNone

\* C28: on a Store with the users alice and bob and no messages, with
\* clients that act one after the other: A's login as alice sends A
\* login_ok{alice, not admin}, history [] and presence [alice]; B's login
\* as bob then sends B login_ok{bob} and history [] and sends A and B
\* presence [alice, bob]; A's send of the text hi then sends A and B the
\* message event with id 1, username alice, kind text, content hi and no
\* reply_to; B's close then sends A presence [alice]. Each broadcast sends
\* its event once to each connection it was started for, every send
\* succeeds, and no other step sends anything.
C28_Scenario ==
    [][ /\ last'.op \in {"accept", "close", "eof", "presence", "cleanup", "return"}
           => last'.to = 0
        /\ last'.op = "send"
           => /\ last'.ok
              /\ last'.to \in Top(last'.c).todo
              /\ last'.to \notin Top(last'.c).sent
              /\ last'.ev = Top(last'.c).ev
        /\ last'.op = "return" => Top(last'.c).sent = Top(last'.c).snap
        \* A logs in as alice
        /\ (OnlyA /\ SESSIONS[1] = Unauthed /\ last'.op = "frame"
              /\ last'.frame = Login(PyStr(s_alice), PyStr(s_pw)))
           => /\ last' = Did("frame", 1, last'.frame, FALSE, 1,
                             [type |-> "login_ok", username |-> s_alice, is_admin |-> FALSE],
                             TRUE, NoEv, FALSE)
              /\ SESSIONS'[1] = SessionAlice
        /\ (OnlyA /\ SESSIONS[1] = SessionAlice /\ last'.op = "history")
           => /\ last'.to = 1 /\ last'.ok
              /\ last'.ev = EvHistory(<<>>)
        /\ (OnlyA /\ SESSIONS[1] = SessionAlice /\ last'.op = "presence")
           => /\ last'.bcast = EvPresence(<<s_alice>>)
              /\ Started(1) = BroadcastCall(EvPresence(<<s_alice>>), {1})
        /\ (OnlyA /\ SESSIONS[1] = SessionAlice /\ last'.op = "send")
           => /\ last'.to = 1
              /\ last'.ev = EvPresence(<<s_alice>>)
        \* B logs in as bob
        /\ (AThenB /\ SESSIONS[2] = Unauthed /\ last'.op = "frame" /\ last'.c = 2
              /\ last'.frame = Login(PyStr(s_bob), PyStr(s_pw)))
           => /\ last' = Did("frame", 2, last'.frame, FALSE, 2,
                             [type |-> "login_ok", username |-> s_bob, is_admin |-> FALSE],
                             TRUE, NoEv, FALSE)
              /\ SESSIONS'[2] = SessionBob
        /\ (AThenB /\ SESSIONS[2] = SessionBob /\ last'.c = 2 /\ last'.op = "history")
           => /\ last'.to = 2 /\ last'.ok
              /\ last'.ev = EvHistory(<<>>)
        /\ (AThenB /\ SESSIONS[2] = SessionBob /\ last'.c = 2 /\ last'.op = "presence")
           => /\ last'.bcast = EvPresence(<<s_alice, s_bob>>)
              /\ Started(2) = BroadcastCall(EvPresence(<<s_alice, s_bob>>), {1, 2})
        /\ (AThenB /\ SESSIONS[2] = SessionBob /\ last'.c = 2 /\ last'.op = "send")
           => last'.ev = EvPresence(<<s_alice, s_bob>>)
        \* A sends the text hi
        /\ (BothLoggedIn /\ messages = <<>> /\ last'.op = "frame" /\ last'.c = 1
              /\ last'.frame = Send(PyStr(s_text), PyStr(s_hi), PyNone, PyNone))
           => /\ last'.stored
              /\ last'.to = 0
              /\ HiEvent(last'.bcast)
              /\ Started(1) = BroadcastCall(last'.bcast, {1, 2})
              /\ Len(messages') = 1
        /\ (BothLoggedIn /\ Len(messages) = 1 /\ last'.op = "send" /\ last'.c = 1
              /\ Top(1).ev.type = "message")
           => HiEvent(last'.ev)
        \* B disconnects
        /\ (BClosed /\ last'.op = "cleanup" /\ last'.c = 2)
           => /\ last'.bcast = EvPresence(<<s_alice>>)
              /\ Started(2) = BroadcastCall(EvPresence(<<s_alice>>), {1})
              /\ 2 \notin DOMAIN SESSIONS'
        /\ (BClosed /\ last'.op = "send" /\ last'.c = 2)
           => /\ last'.to = 1
              /\ last'.ev = EvPresence(<<s_alice>>) ]_vars

\* C28 witness: the end of the scenario: after two logins, alice's message
\* and B's close, A has been sent presence [alice] by B's clean-up
C28_Witness ==
    /\ budget = 0
    /\ BClosed
    /\ CONNS = {1} /\ DOMAIN SESSIONS = {1}
    /\ messages[1].content = s_hi
    /\ last.op = "send" /\ last.c = 2 /\ last.to = 1 /\ last.ok
    /\ last.ev = EvPresence(<<s_alice>>)
    /\ evicted = {}

\* C29: the message event that a stored send frame starts to broadcast has
\* the user_id and username of the session of the frame's connection, which
\* are those of one row of users, and the stored row has that user_id; and
\* while the broadcast goes on in the task of that connection the event keeps
\* them: every send of it carries the event the broadcast was started with,
\* and as long as the session exists it has that user_id and username.
C29_IdentityFromSession ==
    /\ [](\A c \in DOMAIN stack : \A k \in 1..Len(stack[c]) :
            (stack[c][k].ev.type = "message" /\ c \in DOMAIN SESSIONS)
            => /\ SESSIONS[c].authed
               /\ stack[c][k].ev.message.user_id = SESSIONS[c].user_id
               /\ stack[c][k].ev.message.username = SESSIONS[c].username)
    /\ [][ /\ (SendFrame(last') /\ last'.stored)
              => /\ last'.bcast.type = "message"
                 /\ last'.bcast.message.user_id = SESSIONS[last'.c].user_id
                 /\ last'.bcast.message.username = SESSIONS[last'.c].username
                 /\ \E i \in 1..Len(users) :
                      /\ users[i].id = last'.bcast.message.user_id
                      /\ users[i].username = last'.bcast.message.username
                 /\ messages'[Len(messages')].user_id = SESSIONS[last'.c].user_id
                 /\ SESSIONS' = SESSIONS
           /\ (last'.op = "send" /\ last'.ev.type = "message")
              => last'.ev = Top(last'.c).ev ]_vars

\* C29 witness: a send frame that names the user admin and claims is_admin
\* arrived on the session of another user, was stored, and the message event
\* has the session's username
C29_Witness ==
    /\ SendFrame(last) /\ last.stored
    /\ last.frame.username = PyStr(s_admin)
    /\ last.frame.is_admin = PyBool(TRUE)
    /\ last.bcast.message.username = SESSIONS[last.c].username
    /\ last.bcast.message.username # s_admin

\* C30: a connection is never sent a message event whose id is smaller than
\* the id of a message event it has already been sent by a broadcast that is
\* still under way.
C30_IdsIncreasing ==
    [][ (last'.op = "send" /\ last'.ok /\ last'.ev.type = "message")
        => \A call \in Calls :
             (call.ev.type = "message" /\ last'.to \in call.sent)
             => call.ev.message.id < last'.ev.message.id ]_vars

\* the send frame of l would be stored if it had no reply_to
StoredWithoutReply(l, mtab, sess) ==
    handle_send(mtab, sess[l.c], [l.frame EXCEPT !.reply_to = PyNone]).out = "stored"

\* the send frame of l was stored and broadcast with reply_to r
StoredWithReply(l, mtab, r) ==
    /\ l.stored
    /\ l.bcast.type = "message"
    /\ l.bcast.message.reply_to = r
    /\ mtab[Len(mtab)].reply_to = r
    /\ mtab[Len(mtab)].id = l.bcast.message.id

\* C31 (as claimed): a send frame whose reply_to is any JSON integer that is
\* the id of no stored message, and that would be stored without it, is
\* stored and broadcast with that reply_to.
C31_AnyIntegerReplyTo ==
    [][ ( /\ SendFrame(last')
          /\ last'.frame.reply_to.t \in {"int", "int64", "bigint"}
          /\ ~ \E i \in 1..Len(messages) :
                 last'.frame.reply_to = PyInt(messages[i].id)
          /\ StoredWithoutReply(last', messages, SESSIONS) )
        => StoredWithReply(last', messages', last'.frame.reply_to) ]_vars

\* C31: a send frame whose reply_to is an integer in the range of the
\* INTEGER column that is the id of no stored message, and that would be
\* stored without it, is stored and broadcast with that reply_to; and a
\* stored send frame without reply_to is stored and broadcast with
\* reply_to null.
C31_ReplyToNotValidated ==
    [][ /\ ( /\ SendFrame(last')
             /\ last'.frame.reply_to.t \in {"int", "int64"}
             /\ ~ \E i \in 1..Len(messages) :
                    last'.frame.reply_to = PyInt(messages[i].id)
             /\ StoredWithoutReply(last', messages, SESSIONS) )
           => StoredWithReply(last', messages', last'.frame.reply_to)
        /\ ( /\ SendFrame(last')
             /\ last'.frame.reply_to = PyNone
             /\ last'.stored )
           => StoredWithReply(last', messages', PyNone) ]_vars

\* C31 witness: a message that replies to message 7 was stored and broadcast
\* when fewer than 7 messages exist
C31_Witness ==
    /\ SendFrame(last)
    /\ last.frame.reply_to = PyInt(7)
    /\ StoredWithReply(last, messages, PyInt(7))
    /\ Len(messages) < 7

\* the rows of users that admin_create_user frames have created
Created(utab) == {utab[i] : i \in (Len(InitUsers) + 1)..Len(utab)}

\* C32: an admin_create_user frame of an administrator that the Store
\* accepts appends one row to users, active, with the trimmed username and
\* the admin flag of the frame, leaves the other rows as they were, sends
\* admin_create_user_ok with that username to the connection of the frame
\* and starts no broadcast; from then on authenticate accepts the username
\* with the password of the frame, and a login frame with them, on whatever
\* connection, is answered with login_ok for that user.
C32_AdminCreateAccepted ==
    /\ [](\A u \in Created(users) :
            /\ u.is_active
            /\ authenticate(users, u.username, PyStr(u.password_hash.dk[2])) = [t |-> "dict", v |-> u]
            /\ (LastFrameIs(last, "login") /\ Accepts(users, last.frame, u))
               => /\ last.to = last.c
                  /\ last.ev = EvLoginOk(u)
                  /\ last.c \in DOMAIN SESSIONS => SESSIONS[last.c] = AuthedSession(u))
    /\ [][ (AdminCreateFrame(last', SESSIONS) /\ StoreRejection(users, last'.frame) = <<>>)
           => /\ Len(users') = Len(users) + 1
              /\ SubSeq(users', 1, Len(users)) = users
              /\ users'[Len(users')].id = Len(users')
              /\ users'[Len(users')].username = Strip(last'.frame.username.v)
              /\ users'[Len(users')].is_admin = Truthy(last'.frame.is_admin)
              /\ users'[Len(users')].is_active
              /\ Accepts(users', Login(last'.frame.username, last'.frame.password),
                         users'[Len(users')])
              /\ last'.to = last'.c
              /\ last'.ev = EvAdminOk(Strip(last'.frame.username.v))
              /\ last'.ok = alive[last'.c]
              /\ last'.bcast = NoEv
              /\ UNCHANGED <<messages, CONNS, SESSIONS, stack>> ]_vars

\* C32 witness: the user zed, created by an administrator, has logged in
C32_Witness ==
    /\ LastFrameIs(last, "login")
    /\ last.frame.username = PyStr(s_zed)
    /\ last.ev.type = "login_ok"
    /\ last.ev.username = s_zed
    /\ last.ok
    /\ \E u \in Created(users) : u.username = s_zed

\* C33: every message event and every presence event that is delivered is
\* delivered to a connection whose session is authenticated.
C33_TrafficOnlyToAuthed ==
    (last.op \in {"send", "frame"} /\ last.ok /\ last.ev.type \in {"message", "presence"})
    => /\ last.to \in DOMAIN SESSIONS
       /\ SESSIONS[last.to].authed

\* C34: whatever is delivered to a connection whose login frame has not been
\* answered yet (in SpecS: whose session is still the one stored at accept)
\* is login_ok or login_error.
C34_LoginAnswerFirst ==
    [][ ( /\ last'.to \in DOMAIN SESSIONS
          /\ SESSIONS[last'.to] = Unauthed
          /\ last'.ok )
        => last'.ev.type \in {"login_ok", "login_error"} ]_vars

\* C35: whenever no handler is in the middle of a step, the connections that
\* have a session are the connections of CONNS.
C35_SessionsAreConns ==
    running = 0 => DOMAIN SESSIONS = CONNS

\* C36: every call of broadcast returns, the calls nested in it included
\* (once the last connection has come or closed, no call is left under way);
\* the chain broadcast -> cleanup_ws -> broadcast_presence -> broadcast is
\* never deeper than the number of connections accepted plus one; and when
\* a call returns it has attempted every connection of its snapshot and
\* none of the connections whose send failed in it is in CONNS.
C36_BroadcastTerminates ==
    /\ [](\A c \in DOMAIN stack : Len(stack[c]) <= naccepted + 1)
    /\ [][ last'.op = "return"
           => /\ Top(last'.c).todo = {}
              /\ Range(Top(last'.c).dead) \cap CONNS' = {}
              /\ Range(Top(last'.c).dead) \cap DOMAIN SESSIONS' = {} ]_vars
    /\ <>[](\A c \in DOMAIN stack : stack[c] = <<>>)

\* C36 witness: the broadcast of the clean-up of one closed connection has
\* returned after its send to another closed connection failed and it
\* unregistered that connection, with a nested broadcast to the third
C36_Witness ==
    /\ last.op = "return"
    /\ stack[last.c] = <<>>
    /\ pc[last.c] = "done"
    /\ Cardinality(evicted) = 1
    /\ last.c \notin evicted
    /\ Cardinality(CONNS) = MaxConnsB - 2

\* nothing is left to do but return: every broadcast under way has attempted
\* its whole snapshot and cleaned up its dead list, no handler is inside a
\* frame or about to clean up, and no closed connection waits to be noticed
Settling ==
    /\ \A call \in Calls : call.todo = {} /\ call.cleaned = Len(call.dead)
    /\ \A c \in DOMAIN pc :
         /\ pc[c] \in {"recv", "done", "broadcast"}
         /\ pc[c] = "recv" => alive[c]

\* C37: the presence event that is delivered last to an authenticated,
\* registered connection before the server comes to rest lists the users
\* that are online then.
C37_PresenceConverges ==
    ( /\ last.op = "send" /\ last.ok
      /\ last.ev.type = "presence"
      /\ last.to \in CONNS
      /\ last.to \in Authed(SESSIONS)
      /\ Settling )
    => last.ev.online \in online_usernames(SESSIONS)

\* the commands waiting in the worker's queue or on their way to it
Queued(w) == Range(w.ready) \cup (IF w.cmd_q.t = "queue" THEN Range(w.cmd_q.v) ELSE {})

\* the disconnected signals the worker has emitted
Disconnected == {i \in 1..Len(worker.signals) : worker.signals[i].name = "disconnected"}

\* C38: a stop() called on a started worker whose run has not ended sends
\* the stop command to the worker's queue, and after a stop() the run ends.
C38_StopTerminates ==
    /\ [][ (worker'.stop_called /\ ~worker.stop_called /\ worker.pc # "ended")
           => "_stop" \in Queued(worker') ]_vars
    /\ (worker.stop_called ~> worker.pc = "ended")

\* C39: when the run of the worker has ended, it has emitted the
\* disconnected signal exactly once.
C39_DisconnectedOnce ==
    worker.pc = "ended" => Cardinality(Disconnected) = 1

====
